---- MODULE Spec2Model ----
(***************************************************************************)
(* ruspiro-lock: the blocking primitives of src/sync (Mutex, RWLock,       *)
(* Semaphore) and the asynchronous adapters of src/async built on them     *)
(* (AsyncMutex, AsyncRWLock, AsyncSemaphore).                              *)
(*                                                                         *)
(* Every task is a process whose position is a pc value.  One step is one  *)
(* atomic memory operation of the source (a swap, load, store, fetch_add   *)
(* or fetch_sub), or one read-modify-write of the waiter registry done     *)
(* while the registry Mutex is held.  A blocking Mutex::lock() is the      *)
(* retry loop of try_lock: the step that takes it is enabled only when the *)
(* flag is clear.                                                          *)
(***************************************************************************)
EXTENDS Integers, FiniteSets, Sequences, TLC

\* ------------------------------------------------------------------ bounds
NumTasks == 3      \* tasks sharing the AsyncMutex, and the AsyncRWLock
NumSemTasks == 2   \* tasks sharing the AsyncSemaphore
MaxId == 2         \* lock()/read()/down() is called only while next_waiter < MaxId
MaxCount == 2      \* AsyncSemaphore::new(c) with c in 0..MaxCount
MaxUps == 2        \* up() is called at most MaxUps times
NumOrderTasks == 4 \* tasks sharing the AsyncMutex in SpecMutexOrder
MaxOrderCalls == 1
NumCores == 3
MaxAquires == 2 \* in SpecMutexOrder each task calls lock() at most MaxOrderCalls times

Tasks == 1..NumTasks
SemTasks == 1..NumSemTasks
OrderTasks == 1..NumOrderTasks
Cores == 1..NumCores
NoId == -1

VARIABLES
  \* AsyncMutex<T>
  m_locked,         \* data: Mutex<T>.locked
  m_inner_locked,   \* inner: Mutex<AsyncMutexInner>.locked
  m_waiter,         \* AsyncMutexInner.waiter : id -> task of the stored Waker
  m_next_waiter,    \* AsyncMutexInner.next_waiter
  m_pc,             \* position of each task in lock() / poll() / drop()
  m_id,             \* AsyncMutexFuture.id of the task's future
  m_woken,          \* tasks whose Waker was invoked and that were not yet re-polled
  m_data,           \* data: the T in Mutex<T>, a value in {0, 1}
  m_released,       \* history: the value of the data when the last guard was dropped
  m_dropped,        \* history: ids of the futures dropped before they resolved
  m_ord,            \* history: the three registered waiters whose wake order is observed
  m_obs,            \* history: the polls of the pending futures after a guard drop
  m_calls,          \* history: the number of lock() calls of each task (SpecMutexOrder)
  \* AsyncRWLock<T>
  rw_write_lock,    \* data: RWLock<T>.write_lock
  rw_read_locks,    \* data: RWLock<T>.read_locks
  rw_inner_locked,  \* inner: Mutex<AsyncRWLockInner>.locked
  rw_waiter,        \* AsyncRWLockInner.waiter
  rw_next_waiter,   \* AsyncRWLockInner.next_waiter
  rw_pc,
  rw_kind,          \* "write" for lock(), "read" for read()
  rw_id,
  rw_woken,
  rw_data,          \* data: the T in RWLock<T>, a value in {0, 1}
  rw_released,      \* history: the value of the data when the last write guard was dropped
  rw_dropped,       \* history: ids of the futures dropped before they resolved
  rw_why,           \* history: the guard that made the fast path of each request fail
  \* AsyncSemaphore
  s_count,          \* sema: Semaphore.count (AtomicU32, two's complement)
  s_inner_locked,   \* inner: Mutex<AsyncSemaphoreInner>.locked
  s_waiter,         \* AsyncSemaphoreInner.waiter
  s_next_waiter,    \* AsyncSemaphoreInner.next_waiter
  s_pc,
  s_id,
  s_value,          \* the local `value` of Semaphore::try_down
  s_woken,
  s_initial,        \* history: the argument of AsyncSemaphore::new
  s_downs,          \* history: number of down() calls that resolved
  s_ups,            \* history: number of up() calls that incremented
  s_up_wakes,       \* history: number of up() calls that passed their wake
  s_ho,             \* history: the hand-over (waiter, up() call) being observed
  s_rt,             \* history: shape of the run so far (downs, then ups, one at a time)
  s_dropped,        \* history: ids of the futures dropped before they resolved
  \* sync::Mutex<T> and DataLock<T> used directly by the cores
  mx_locked,        \* Mutex.locked
  mx_pc,            \* position of each core: idle, none (try_lock returned None),
                    \* spin (inside lock()), guard (holds the MutexGuard)
  dl_locked,        \* DataLock.locked
  dl_pc,            \* the same positions for the TryDataLock
  \* Spinlock
  sp_flag,          \* Spinlock.flag
  sp_pc,            \* position of each core: idle, spin (inside aquire()), held
  sp_count,         \* history: number of aquire() calls of each core that returned
  \* DataRWLock<T> (datarwlock.rs), shared by the cores
  drw_write_lock,   \* DataRWLock.write_lock
  drw_read_locks,   \* DataRWLock.read_locks: u32
  drw_pc,           \* position of each core: idle, none (try_lock returned None),
                    \* spin (inside lock()), write (holds the DataWriteLock),
                    \* read (holds a DataReadLock)
  \* Semaphore (semaphore.rs: flag and Cell<u32>), shared by the cores
  sem_flag,         \* Semaphore.flag
  sem_count,        \* Semaphore.count: u32
  sem_pc,           \* position of each core in up() or try_down(): idle,
                    \* up_spin, up_get, up_set, up_release, down_spin, down_get,
                    \* down_set, down_release
  sem_c,            \* the local `c` of the call of each core
  sem_initial,      \* history: the argument of Semaphore::new
  sem_ups,          \* history: number of up() calls that returned
  sem_downs         \* history: number of try_down() calls that returned Ok

m_vars == <<m_locked, m_inner_locked, m_waiter, m_next_waiter, m_pc, m_id, m_woken,
            m_data, m_released, m_dropped, m_ord, m_obs, m_calls>>
rw_vars == <<rw_write_lock, rw_read_locks, rw_inner_locked, rw_waiter,
             rw_next_waiter, rw_pc, rw_kind, rw_id, rw_woken, rw_data, rw_released,
             rw_dropped, rw_why>>
s_vars == <<s_count, s_inner_locked, s_waiter, s_next_waiter, s_pc, s_id,
            s_value, s_woken, s_initial, s_downs, s_ups, s_up_wakes, s_ho, s_rt,
            s_dropped>>
sp_vars == <<sp_flag, sp_pc, sp_count>>
drw_vars == <<drw_write_lock, drw_read_locks, drw_pc>>
sem_vars == <<sem_flag, sem_count, sem_pc, sem_c, sem_initial, sem_ups, sem_downs>>
lg_vars == <<drw_vars, sem_vars>>
l_vars == <<mx_locked, mx_pc, dl_locked, dl_pc, sp_vars, lg_vars>>
vars == <<m_vars, rw_vars, s_vars, l_vars>>

\* ------------------------------------------------- BTreeMap<usize, Waker>
EmptyMap == << >>

\* keys().next_back(): the largest key instead of the smallest
LastKey(w) == CHOOSE k \in DOMAIN w : \A j \in DOMAIN w : k >= j

\* BTreeMap::keys().next(): the smallest key
FirstKey(w) == CHOOSE k \in DOMAIN w : \A j \in DOMAIN w : k <= j

\* a remove that clears the map
MapRemoveAll(w, k) == EmptyMap

\* a remove that leaves the entry in the map
MapRemoveKeep(w, k) == w

\* BTreeMap::remove
MapRemove(w, k) == [i \in (DOMAIN w) \ {k} |-> w[i]]

\* BTreeMap::insert: overwrites the value of a key that is present
MapInsert(w, k, v) == [i \in (DOMAIN w) \cup {k} |-> IF i = k THEN v ELSE w[i]]

\* ------------------------------------------------------------ sync::Mutex
\* a try_lock that sets the flag and ignores the value swap() returns
TryLockBlind(locked) == [ok |-> TRUE, locked |-> TRUE]

\* Mutex::try_lock: locked.swap(true); Some(guard) iff the old value was false
TryLock(locked) == [ok |-> ~locked, locked |-> TRUE]

\* a drop of the MutexGuard that leaves the flag as it is
MutexGuardDropKeep(locked) == locked

\* Drop for MutexGuard: locked.swap(false)
MutexGuardDrop(locked) == FALSE

\* ------------------------------ history of the AsyncMutex (not in the code)
MinOf(S) == CHOOSE k \in S : \A j \in S : k <= j

NoOrder == [st |-> "none", expect |-> << >>, low |-> FALSE]

\* after the wake step of a guard drop on registry w that selected id k (NoId:
\* nobody): with three or more ids registered the observation of the three
\* smallest starts; while it runs, each release is to select the next of them
OrdRelease(w, k) ==
  IF m_ord.st = "obs"
    THEN IF k = Head(m_ord.expect)
           THEN [m_ord EXCEPT !.expect = Tail(@),
                              !.st = IF Len(m_ord.expect) = 1 THEN "ok" ELSE "obs"]
           ELSE [m_ord EXCEPT !.st = "bad", !.expect = << >>]
  ELSE IF Cardinality(DOMAIN w) >= 3
    THEN LET w1 == MinOf(DOMAIN w)
             w2 == MinOf((DOMAIN w) \ {w1})
             w3 == MinOf((DOMAIN w) \ {w1, w2})
         IN  IF k = w1
               THEN [st |-> "obs", expect |-> <<w2, w3>>, low |-> FALSE]
               ELSE [st |-> "bad", expect |-> << >>, low |-> FALSE]
  ELSE NoOrder

\* any other step: a finished observation is forgotten
OrdStep == IF m_ord.st \in {"ok", "bad"} THEN NoOrder ELSE m_ord

\* after the insertion of id k into registry w: during an observation, an id
\* below the last expected one that was not registered is noted
OrdInsert(w, k) ==
  IF m_ord.st = "obs" /\ k \notin DOMAIN w /\ k < m_ord.expect[Len(m_ord.expect)]
    THEN [m_ord EXCEPT !.low = TRUE]
    ELSE OrdStep

NoPolls == [st |-> "none", todo |-> {}, k |-> 0, ready |-> 0]

\* the polls are not observed in this run
PollsOff == [st |-> "off", todo |-> {}, k |-> 0, ready |-> 0]

\* a step that is not one of the observed polls ends the observation
ObsAbort == IF m_obs.st = "off" THEN m_obs ELSE NoPolls

\* the guard drop of t is complete: when every other task is idle or has a
\* pending future, the polls of the k >= 1 pending futures are observed
ObsDropDone(t) ==
  LET P == {u \in (DOMAIN m_pc) \ {t} : m_pc[u] = "pending"} IN
  IF m_obs.st = "off" THEN m_obs
  ELSE IF P # {} /\ \A u \in (DOMAIN m_pc) \ {t} : m_pc[u] \in {"idle", "pending"}
    THEN [st |-> "polling", todo |-> P, k |-> Cardinality(P), ready |-> 0]
    ELSE NoPolls

ObsWatched(u) == m_obs.st = "polling" /\ u \in m_obs.todo

\* the poll of u has returned, Ready (ok) or Pending
ObsPolled(u, ok) ==
  [m_obs EXCEPT !.todo = @ \ {u},
                !.ready = IF ok THEN @ + 1 ELSE @,
                !.st = IF m_obs.todo = {u} THEN "done" ELSE "polling"]

\* a step inside the poll of u that does not end it
ObsPollStep(u) == IF ObsWatched(u) THEN m_obs ELSE ObsAbort

\* the try_lock of the poll of u: Ready ends the poll
ObsPollTry(u, ok) ==
  IF ObsWatched(u) THEN (IF ok THEN ObsPolled(u, TRUE) ELSE m_obs) ELSE ObsAbort

\* the poll of u returns Pending
ObsPollEnd(u) == IF ObsWatched(u) THEN ObsPolled(u, FALSE) ELSE ObsAbort

\* ------------------------------------------------------------- AsyncMutex
InitMutex ==
  /\ m_locked = FALSE
  /\ m_inner_locked = FALSE
  /\ m_waiter = EmptyMap
  /\ m_next_waiter = 0
  /\ m_pc = [t \in Tasks |-> "idle"]
  /\ m_id = [t \in Tasks |-> NoId]
  /\ m_woken = {}
  /\ m_data = 0
  /\ m_released = 0
  /\ m_dropped = {}
  /\ m_ord = NoOrder
  /\ m_obs = NoPolls
  /\ m_calls = [t \in Tasks |-> 0]

\* a lock() that draws a waiter id before it tries the lock
M_LockEager(t) ==
  /\ UNCHANGED <<rw_vars, s_vars, l_vars>>
  /\ m_pc[t] = "idle"
  /\ m_next_waiter < MaxId
  /\ LET r == TryLock(m_locked) IN
       /\ m_locked' = r.locked
       /\ m_pc' = [m_pc EXCEPT ![t] = IF r.ok THEN "guard" ELSE "alloc_spin"]
  /\ m_obs' = ObsAbort
  /\ m_ord' = OrdStep
  /\ m_next_waiter' = m_next_waiter + 1
  /\ UNCHANGED <<m_inner_locked, m_waiter, m_id, m_woken,
                 m_data, m_released, m_dropped, m_calls>>

\* AsyncMutex::lock, the fast path: self.data.try_lock()
M_Lock(t) ==
  /\ UNCHANGED <<rw_vars, s_vars, l_vars>>
  /\ m_pc[t] = "idle"
  /\ m_next_waiter < MaxId
  /\ LET r == TryLock(m_locked) IN
       /\ m_locked' = r.locked
       /\ m_pc' = [m_pc EXCEPT ![t] = IF r.ok THEN "guard" ELSE "alloc_spin"]
  /\ m_obs' = ObsAbort
  /\ m_ord' = OrdStep
  /\ UNCHANGED <<m_inner_locked, m_waiter, m_next_waiter, m_id, m_woken,
                 m_data, m_released, m_dropped, m_calls>>

\* AsyncMutex::lock, the slow path: let mut inner = self.inner.lock()
M_AllocLock(t) ==
  /\ UNCHANGED <<rw_vars, s_vars, l_vars>>
  /\ m_pc[t] = "alloc_spin"
  /\ TryLock(m_inner_locked).ok
  /\ m_inner_locked' = TryLock(m_inner_locked).locked
  /\ m_pc' = [m_pc EXCEPT ![t] = "alloc"]
  /\ m_obs' = ObsAbort
  /\ m_ord' = OrdStep
  /\ UNCHANGED <<m_locked, m_waiter, m_next_waiter, m_id, m_woken, m_data,
                 m_released, m_dropped, m_calls>>

\* an allocation that hands out next_waiter without advancing it
M_AllocReuse(t) ==
  /\ UNCHANGED <<rw_vars, s_vars, l_vars>>
  /\ m_pc[t] = "alloc"
  /\ m_id' = [m_id EXCEPT ![t] = m_next_waiter]
  /\ m_next_waiter' = m_next_waiter
  /\ m_inner_locked' = MutexGuardDrop(m_inner_locked)
  /\ m_pc' = [m_pc EXCEPT ![t] = "poll"]
  /\ m_obs' = ObsAbort
  /\ m_ord' = OrdStep
  /\ UNCHANGED <<m_locked, m_waiter, m_woken, m_data, m_released, m_dropped,
                 m_calls>>

\* current_id = inner.next_waiter; inner.next_waiter += 1; drop(inner);
\* AsyncMutexFuture::new(.., current_id).await
M_Alloc(t) ==
  /\ UNCHANGED <<rw_vars, s_vars, l_vars>>
  /\ m_pc[t] = "alloc"
  /\ m_id' = [m_id EXCEPT ![t] = m_next_waiter]
  /\ m_next_waiter' = m_next_waiter + 1
  /\ m_inner_locked' = MutexGuardDrop(m_inner_locked)
  /\ m_pc' = [m_pc EXCEPT ![t] = "poll"]
  /\ m_obs' = ObsAbort
  /\ m_ord' = OrdStep
  /\ UNCHANGED <<m_locked, m_waiter, m_woken, m_data, m_released, m_dropped,
                 m_calls>>

\* a poll that, on failure, forgets the id of its future
M_PollForget(t) ==
  /\ UNCHANGED <<rw_vars, s_vars, l_vars>>
  /\ m_pc[t] = "poll"
  /\ LET r == TryLock(m_locked) IN
       /\ m_locked' = r.locked
       /\ m_pc' = [m_pc EXCEPT ![t] = IF r.ok THEN "guard" ELSE "reg_spin"]
       /\ m_id' = [m_id EXCEPT ![t] = IF r.ok THEN NoId ELSE 0]
  /\ m_obs' = ObsPollTry(t, TryLock(m_locked).ok)
  /\ m_ord' = OrdStep
  /\ UNCHANGED <<m_inner_locked, m_waiter, m_next_waiter, m_woken, m_data,
                 m_released, m_dropped, m_calls>>

\* AsyncMutexFuture::poll: this.data.try_lock()
M_Poll(t) ==
  /\ UNCHANGED <<rw_vars, s_vars, l_vars>>
  /\ m_pc[t] = "poll"
  /\ LET r == TryLock(m_locked) IN
       /\ m_locked' = r.locked
       /\ m_pc' = [m_pc EXCEPT ![t] = IF r.ok THEN "guard" ELSE "reg_spin"]
       /\ m_id' = [m_id EXCEPT ![t] = IF r.ok THEN NoId ELSE m_id[t]]
  /\ m_obs' = ObsPollTry(t, TryLock(m_locked).ok)
  /\ m_ord' = OrdStep
  /\ UNCHANGED <<m_inner_locked, m_waiter, m_next_waiter, m_woken, m_data,
                 m_released, m_dropped, m_calls>>

\* AsyncMutexFuture::poll, not acquired: let mut inner = this.inner.lock()
M_RegLock(t) ==
  /\ UNCHANGED <<rw_vars, s_vars, l_vars>>
  /\ m_pc[t] = "reg_spin"
  /\ TryLock(m_inner_locked).ok
  /\ m_inner_locked' = TryLock(m_inner_locked).locked
  /\ m_pc' = [m_pc EXCEPT ![t] = "reg"]
  /\ m_obs' = ObsPollStep(t)
  /\ m_ord' = OrdStep
  /\ UNCHANGED <<m_locked, m_waiter, m_next_waiter, m_id, m_woken, m_data,
                 m_released, m_dropped, m_calls>>

\* a poll that returns Pending with the registry lock still held
M_RegisterHold(t) ==
  /\ UNCHANGED <<rw_vars, s_vars, l_vars>>
  /\ m_pc[t] = "reg"
  /\ m_waiter' = MapInsert(m_waiter, m_id[t], t)
  /\ m_inner_locked' = m_inner_locked
  /\ m_pc' = [m_pc EXCEPT ![t] = "pending"]
  /\ m_obs' = ObsPollEnd(t)
  /\ m_ord' = OrdInsert(m_waiter, m_id[t])
  /\ UNCHANGED <<m_locked, m_next_waiter, m_id, m_woken, m_data, m_released,
                 m_dropped, m_calls>>

\* a poll that stores its wake handle under another id than its own
M_RegisterOther(t) ==
  /\ UNCHANGED <<rw_vars, s_vars, l_vars>>
  /\ m_pc[t] = "reg"
  /\ m_waiter' = MapInsert(m_waiter, m_id[t] + 1, t)
  /\ m_inner_locked' = MutexGuardDrop(m_inner_locked)
  /\ m_pc' = [m_pc EXCEPT ![t] = "pending"]
  /\ m_obs' = ObsPollEnd(t)
  /\ m_ord' = OrdInsert(m_waiter, m_id[t])
  /\ UNCHANGED <<m_locked, m_next_waiter, m_id, m_woken, m_data, m_released,
                 m_dropped, m_calls>>

\* inner.waiter.insert(this.id, cx.waker().clone()); drop(inner); Poll::Pending
M_Register(t) ==
  /\ UNCHANGED <<rw_vars, s_vars, l_vars>>
  /\ m_pc[t] = "reg"
  /\ m_waiter' = MapInsert(m_waiter, m_id[t], t)
  /\ m_inner_locked' = MutexGuardDrop(m_inner_locked)
  /\ m_pc' = [m_pc EXCEPT ![t] = "pending"]
  /\ m_obs' = ObsPollEnd(t)
  /\ m_ord' = OrdInsert(m_waiter, m_id[t])
  /\ UNCHANGED <<m_locked, m_next_waiter, m_id, m_woken, m_data, m_released,
                 m_dropped, m_calls>>

\* The executor polls a task whose Waker was invoked.
M_Repoll(t) ==
  /\ UNCHANGED <<rw_vars, s_vars, l_vars>>
  /\ m_pc[t] = "pending"
  /\ t \in m_woken
  /\ m_woken' = m_woken \ {t}
  /\ m_pc' = [m_pc EXCEPT ![t] = "poll"]
  /\ m_obs' = ObsPollStep(t)
  /\ m_ord' = OrdStep
  /\ UNCHANGED <<m_locked, m_inner_locked, m_waiter, m_next_waiter, m_id,
                 m_data, m_released, m_dropped, m_calls>>

\* The executor polls a pending future whose Waker was not invoked (the Future
\* contract allows it, e.g. under join()).
M_SpuriousPoll(t) ==
  /\ UNCHANGED <<rw_vars, s_vars, l_vars>>
  /\ m_pc[t] = "pending"
  /\ t \notin m_woken
  /\ m_pc' = [m_pc EXCEPT ![t] = "poll"]
  /\ m_obs' = ObsPollStep(t)
  /\ m_ord' = OrdStep
  /\ UNCHANGED <<m_locked, m_inner_locked, m_waiter, m_next_waiter, m_id,
                 m_woken, m_data, m_released, m_dropped, m_calls>>

\* A Waker invoked for a task that is not suspended in a future of this lock.
M_StaleWake(t) ==
  /\ UNCHANGED <<rw_vars, s_vars, l_vars>>
  /\ m_pc[t] \in {"idle", "guard"}
  /\ t \in m_woken
  /\ m_woken' = m_woken \ {t}
  /\ m_ord' = OrdStep
  /\ UNCHANGED <<m_locked, m_inner_locked, m_waiter, m_next_waiter, m_pc, m_id,
                 m_data, m_released, m_dropped, m_obs, m_calls>>

\* a guard drop that enters the registry without waiting for its lock
M_DropLockFree(t) ==
  /\ UNCHANGED <<rw_vars, s_vars, l_vars>>
  /\ m_pc[t] = "guard"
  /\ m_inner_locked' = TryLock(m_inner_locked).locked
  /\ m_pc' = [m_pc EXCEPT ![t] = "drop"]
  /\ m_obs' = ObsAbort
  /\ m_ord' = OrdStep
  /\ UNCHANGED <<m_locked, m_waiter, m_next_waiter, m_id, m_woken, m_data,
                 m_released, m_dropped, m_calls>>

\* Drop for AsyncMutexGuard: let mut inner = self.inner.lock()
M_DropLock(t) ==
  /\ UNCHANGED <<rw_vars, s_vars, l_vars>>
  /\ m_pc[t] = "guard"
  /\ TryLock(m_inner_locked).ok
  /\ m_inner_locked' = TryLock(m_inner_locked).locked
  /\ m_pc' = [m_pc EXCEPT ![t] = "drop"]
  /\ m_obs' = ObsAbort
  /\ m_ord' = OrdStep
  /\ UNCHANGED <<m_locked, m_waiter, m_next_waiter, m_id, m_woken, m_data,
                 m_released, m_dropped, m_calls>>

\* if let Some(&next_waiter) = inner.waiter.keys().next()
\*   { inner.waiter.remove(&next_waiter).expect(..).wake() }
M_DropWake(t) ==
  /\ UNCHANGED <<rw_vars, s_vars, l_vars>>
  /\ m_pc[t] = "drop"
  /\ IF DOMAIN m_waiter # {}
       THEN /\ m_waiter' = MapRemove(m_waiter, FirstKey(m_waiter))
            /\ m_woken' = m_woken \cup {m_waiter[FirstKey(m_waiter)]}
       ELSE UNCHANGED <<m_waiter, m_woken>>
  /\ m_pc' = [m_pc EXCEPT ![t] = "drop_inner"]
  /\ m_obs' = ObsAbort
  /\ m_ord' = OrdRelease(m_waiter, IF DOMAIN m_waiter # {} THEN FirstKey(m_waiter) ELSE NoId)
  /\ UNCHANGED <<m_locked, m_inner_locked, m_next_waiter, m_id, m_data,
                 m_released, m_dropped, m_calls>>

\* end of Drop::drop: the local `inner` (the registry MutexGuard) is dropped
M_DropUnlock(t) ==
  /\ UNCHANGED <<rw_vars, s_vars, l_vars>>
  /\ m_pc[t] = "drop_inner"
  /\ m_inner_locked' = MutexGuardDrop(m_inner_locked)
  /\ m_pc' = [m_pc EXCEPT ![t] = "drop_guard"]
  /\ m_obs' = ObsAbort
  /\ m_ord' = OrdStep
  /\ UNCHANGED <<m_locked, m_waiter, m_next_waiter, m_id, m_woken, m_data,
                 m_released, m_dropped, m_calls>>

\* a drop that ends with the data lock still taken (the inner guard is leaked)
M_DropGuardLeak(t) ==
  /\ UNCHANGED <<rw_vars, s_vars, l_vars>>
  /\ m_pc[t] = "drop_guard"
  /\ m_locked' = m_locked
  /\ m_pc' = [m_pc EXCEPT ![t] = "idle"]
  /\ m_obs' = ObsDropDone(t)
  /\ m_released' = m_data
  /\ m_ord' = OrdStep
  /\ UNCHANGED <<m_inner_locked, m_waiter, m_next_waiter, m_id, m_woken,
                 m_data, m_dropped, m_calls>>

\* after Drop::drop the fields are dropped: `guard: MutexGuard` releases the data
M_DropGuard(t) ==
  /\ UNCHANGED <<rw_vars, s_vars, l_vars>>
  /\ m_pc[t] = "drop_guard"
  /\ m_locked' = MutexGuardDrop(m_locked)
  /\ m_pc' = [m_pc EXCEPT ![t] = "idle"]
  /\ m_obs' = ObsDropDone(t)
  /\ m_released' = m_data
  /\ m_ord' = OrdStep
  /\ UNCHANGED <<m_inner_locked, m_waiter, m_next_waiter, m_id, m_woken,
                 m_data, m_dropped, m_calls>>

\* DerefMut for AsyncMutexGuard: the task writes through its guard a value
\* other than the one stored
M_Write(t) ==
  /\ UNCHANGED <<rw_vars, s_vars, l_vars>>
  /\ m_pc[t] = "guard"
  /\ m_data' = 1 - m_data
  /\ m_obs' = ObsAbort
  /\ m_ord' = OrdStep
  /\ UNCHANGED <<m_locked, m_inner_locked, m_waiter, m_next_waiter, m_pc, m_id,
                 m_woken, m_released, m_dropped, m_calls>>

\* The AsyncMutexFuture of t is dropped while it is suspended: the type has no
\* Drop, its fields (two Arc and the id) are dropped and the registry is not
\* touched.
M_Cancel(t) ==
  /\ UNCHANGED <<rw_vars, s_vars, l_vars>>
  /\ m_pc[t] = "pending"
  /\ m_pc' = [m_pc EXCEPT ![t] = "idle"]
  /\ m_id' = [m_id EXCEPT ![t] = NoId]
  /\ m_dropped' = m_dropped \cup {m_id[t]}
  /\ m_obs' = ObsAbort
  /\ m_ord' = OrdStep
  /\ UNCHANGED <<m_locked, m_inner_locked, m_waiter, m_next_waiter, m_woken,
                 m_data, m_released, m_calls>>

\* AsyncMutex::lock, the fast path, in SpecMutexOrder
M_LockOrder(t) ==
  /\ UNCHANGED <<rw_vars, s_vars, l_vars>>
  /\ m_pc[t] = "idle"
  /\ m_calls[t] < MaxOrderCalls
  /\ m_calls' = [m_calls EXCEPT ![t] = @ + 1]
  /\ LET r == TryLock(m_locked) IN
       /\ m_locked' = r.locked
       /\ m_pc' = [m_pc EXCEPT ![t] = IF r.ok THEN "guard" ELSE "alloc_spin"]
  /\ m_obs' = ObsAbort
  /\ m_ord' = OrdStep
  /\ UNCHANGED <<m_inner_locked, m_waiter, m_next_waiter, m_id, m_woken, m_data,
                 m_released, m_dropped>>

\* the steps a task takes once lock() was called, and the executor's re-poll
M_Progress(t) ==
  \/ M_AllocLock(t) \/ M_Alloc(t) \/ M_Poll(t) \/ M_RegLock(t) \/ M_Register(t)
  \/ M_Repoll(t) \/ M_DropLock(t) \/ M_DropWake(t) \/ M_DropUnlock(t)
  \/ M_DropGuard(t)

MutexNext ==
  \E t \in Tasks :
    \/ M_Lock(t) \/ M_AllocLock(t) \/ M_Alloc(t) \/ M_Poll(t) \/ M_RegLock(t)
    \/ M_Register(t) \/ M_Repoll(t) \/ M_SpuriousPoll(t) \/ M_StaleWake(t)
    \/ M_DropLock(t) \/ M_DropWake(t) \/ M_DropUnlock(t) \/ M_DropGuard(t)

\* ---------------------------------------------------------------- AtomicU32
\* An AtomicU32 is held as the 32-bit two's complement integer with the same
\* bits: 0 .. 2^31-1 are themselves, 2^31 .. 2^32-1 are value - 2^32.
I32Max == 2147483647
I32Min == -I32Max - 1

\* u32::MAX: all 32 bits set
U32Max == -1

\* a < b on two u32 values
U32Lt(a, b) == IF (a < 0) = (b < 0) THEN a < b ELSE b < 0

\* fetch_add(1): wrapping
U32Inc(v) == IF v = I32Max THEN I32Min ELSE v + 1

\* fetch_sub(1) and `value -= 1` on a value that is not 0
U32Dec(v) == IF v = I32Min THEN I32Max ELSE v - 1

\* `value > 0` on a u32
U32Pos(v) == v # 0

\* ------------------------------------------------------------ sync::RWLock
\* a try_write that does not look at the readers
TryWriteCheckBlind(read_locks) == TRUE

\* RWLock::try_write, first operation: read_locks.load() > 0 => return None
TryWriteCheck(read_locks) == ~U32Pos(read_locks)

\* a swap that reports success whatever the flag was
TryWriteSwapBlind(write_lock) == [ok |-> TRUE, write_lock |-> TRUE]

\* a try_write that clears the flag again when it did not get the lock
TryWriteSwapRelease(write_lock) == [ok |-> ~write_lock, write_lock |-> ~write_lock]

\* RWLock::try_write, second operation: write_lock.swap(true)
TryWriteSwap(write_lock) == [ok |-> ~write_lock, write_lock |-> TRUE]

\* RWLock::try_read, first operation: write_lock.load() => None
TryReadCheck(write_lock) == ~write_lock

\* RWLock::try_read, second operation: read_locks.fetch_add(1)
TryReadAdd(read_locks) == U32Inc(read_locks)

\* Drop for WriteLockGuard: write_lock.store(false)
WriteLockGuardDrop(write_lock) == FALSE

\* a read guard drop that leaves the counter as it is
ReadLockGuardDropKeep(read_locks) == read_locks

\* Drop for ReadLockGuard: read_locks.fetch_sub(1)
ReadLockGuardDrop(read_locks) == U32Dec(read_locks)

\* ----------------------------- history of the AsyncRWLock (not in the code)
\* the guard that made the fast path of the request of t fail: "reader",
\* "writer", or "freed" once that write guard was dropped; "off": not recorded
WhySet(t, v) == IF rw_why[t] = "off" THEN rw_why ELSE [rw_why EXCEPT ![t] = v]

\* ------------------------------------------------------------ AsyncRWLock
InitRW ==
  /\ rw_write_lock = FALSE
  /\ rw_read_locks = 0
  /\ rw_inner_locked = FALSE
  /\ rw_waiter = EmptyMap
  /\ rw_next_waiter = 0
  /\ rw_pc = [t \in Tasks |-> "idle"]
  /\ rw_kind = [t \in Tasks |-> "none"]
  /\ rw_id = [t \in Tasks |-> NoId]
  /\ rw_woken = {}
  /\ rw_data = 0
  /\ rw_released = 0
  /\ rw_dropped = {}
  /\ rw_why = [t \in Tasks |-> "off"]

\* where a failed attempt continues: the slow path of lock()/read(), or the
\* registration of poll()
RWFail(pc) == IF pc \in {"idle", "fast2"} THEN "alloc_spin" ELSE "reg_spin"

\* AsyncRWLock::lock, fast path, and AsyncWriteLockFuture::poll: the load of
\* read_locks in try_write
RW_WriteCheck(t) ==
  /\ UNCHANGED <<m_vars, s_vars, l_vars>>
  /\ \/ rw_pc[t] = "idle" /\ rw_next_waiter < MaxId /\ rw_kind' = [rw_kind EXCEPT ![t] = "write"]
     \/ rw_pc[t] = "poll" /\ rw_kind[t] = "write" /\ UNCHANGED rw_kind
  /\ rw_pc' = [rw_pc EXCEPT ![t] =
        IF TryWriteCheck(rw_read_locks)
          THEN (IF rw_pc[t] = "idle" THEN "fast2" ELSE "poll2")
          ELSE RWFail(rw_pc[t])]
  /\ rw_why' = IF rw_pc[t] = "idle" /\ ~TryWriteCheck(rw_read_locks)
                THEN WhySet(t, "reader") ELSE rw_why
  /\ UNCHANGED <<rw_write_lock, rw_read_locks, rw_inner_locked, rw_waiter,
                 rw_next_waiter, rw_id, rw_woken, rw_data, rw_released,
                 rw_dropped>>

\* the swap of write_lock in try_write
RW_WriteSwap(t) ==
  /\ UNCHANGED <<m_vars, s_vars, l_vars>>
  /\ rw_pc[t] \in {"fast2", "poll2"}
  /\ rw_kind[t] = "write"
  /\ LET r == TryWriteSwap(rw_write_lock) IN
       /\ rw_write_lock' = r.write_lock
       /\ rw_pc' = [rw_pc EXCEPT ![t] = IF r.ok THEN "guard" ELSE RWFail(rw_pc[t])]
       /\ rw_id' = [rw_id EXCEPT ![t] = IF r.ok THEN NoId ELSE rw_id[t]]
  /\ rw_why' = IF TryWriteSwap(rw_write_lock).ok THEN WhySet(t, "none")
                ELSE IF rw_pc[t] = "fast2" THEN WhySet(t, "writer") ELSE rw_why
  /\ UNCHANGED <<rw_read_locks, rw_inner_locked, rw_waiter, rw_next_waiter,
                 rw_kind, rw_woken, rw_data, rw_released, rw_dropped>>

\* AsyncRWLock::read, fast path, and AsyncReadLockFuture::poll: the load of
\* write_lock in try_read
RW_ReadCheck(t) ==
  /\ UNCHANGED <<m_vars, s_vars, l_vars>>
  /\ \/ rw_pc[t] = "idle" /\ rw_next_waiter < MaxId /\ rw_kind' = [rw_kind EXCEPT ![t] = "read"]
     \/ rw_pc[t] = "poll" /\ rw_kind[t] = "read" /\ UNCHANGED rw_kind
  /\ rw_pc' = [rw_pc EXCEPT ![t] =
        IF TryReadCheck(rw_write_lock)
          THEN (IF rw_pc[t] = "idle" THEN "fast2" ELSE "poll2")
          ELSE RWFail(rw_pc[t])]
  /\ rw_why' = IF rw_pc[t] = "idle" /\ ~TryReadCheck(rw_write_lock)
                THEN WhySet(t, "writer") ELSE rw_why
  /\ UNCHANGED <<rw_write_lock, rw_read_locks, rw_inner_locked, rw_waiter,
                 rw_next_waiter, rw_id, rw_woken, rw_data, rw_released,
                 rw_dropped>>

\* the fetch_add of read_locks in try_read
RW_ReadAdd(t) ==
  /\ UNCHANGED <<m_vars, s_vars, l_vars>>
  /\ rw_pc[t] \in {"fast2", "poll2"}
  /\ rw_kind[t] = "read"
  /\ rw_read_locks' = TryReadAdd(rw_read_locks)
  /\ rw_pc' = [rw_pc EXCEPT ![t] = "guard"]
  /\ rw_id' = [rw_id EXCEPT ![t] = NoId]
  /\ rw_why' = WhySet(t, "none")
  /\ UNCHANGED <<rw_write_lock, rw_inner_locked, rw_waiter, rw_next_waiter,
                 rw_kind, rw_woken, rw_data, rw_released, rw_dropped>>

\* lock()/read(), slow path: let mut inner = self.inner.lock()
RW_AllocLock(t) ==
  /\ UNCHANGED <<m_vars, s_vars, l_vars>>
  /\ rw_pc[t] = "alloc_spin"
  /\ TryLock(rw_inner_locked).ok
  /\ rw_inner_locked' = TryLock(rw_inner_locked).locked
  /\ rw_pc' = [rw_pc EXCEPT ![t] = "alloc"]
  /\ UNCHANGED <<rw_write_lock, rw_read_locks, rw_waiter, rw_next_waiter,
                 rw_kind, rw_id, rw_woken, rw_data, rw_released, rw_dropped,
                 rw_why>>

\* an id allocation that does not advance the counter
RW_AllocReuse(t) ==
  /\ UNCHANGED <<m_vars, s_vars, l_vars>>
  /\ rw_pc[t] = "alloc"
  /\ rw_id' = [rw_id EXCEPT ![t] = rw_next_waiter]
  /\ rw_next_waiter' = rw_next_waiter
  /\ rw_inner_locked' = MutexGuardDrop(rw_inner_locked)
  /\ rw_pc' = [rw_pc EXCEPT ![t] = "poll"]
  /\ UNCHANGED <<rw_write_lock, rw_read_locks, rw_waiter, rw_kind, rw_woken,
                 rw_data, rw_released, rw_dropped, rw_why>>

\* current_id = inner.next_waiter; inner.next_waiter += 1; drop(inner); ...await
RW_Alloc(t) ==
  /\ UNCHANGED <<m_vars, s_vars, l_vars>>
  /\ rw_pc[t] = "alloc"
  /\ rw_id' = [rw_id EXCEPT ![t] = rw_next_waiter]
  /\ rw_next_waiter' = rw_next_waiter + 1
  /\ rw_inner_locked' = MutexGuardDrop(rw_inner_locked)
  /\ rw_pc' = [rw_pc EXCEPT ![t] = "poll"]
  /\ UNCHANGED <<rw_write_lock, rw_read_locks, rw_waiter, rw_kind, rw_woken,
                 rw_data, rw_released, rw_dropped, rw_why>>

\* poll(), not acquired: let mut inner = this.inner.lock()
RW_RegLock(t) ==
  /\ UNCHANGED <<m_vars, s_vars, l_vars>>
  /\ rw_pc[t] = "reg_spin"
  /\ TryLock(rw_inner_locked).ok
  /\ rw_inner_locked' = TryLock(rw_inner_locked).locked
  /\ rw_pc' = [rw_pc EXCEPT ![t] = "reg"]
  /\ UNCHANGED <<rw_write_lock, rw_read_locks, rw_waiter, rw_next_waiter,
                 rw_kind, rw_id, rw_woken, rw_data, rw_released, rw_dropped,
                 rw_why>>

\* inner.waiter.insert(this.id, cx.waker().clone()); drop(inner); Poll::Pending
RW_Register(t) ==
  /\ UNCHANGED <<m_vars, s_vars, l_vars>>
  /\ rw_pc[t] = "reg"
  /\ rw_waiter' = MapInsert(rw_waiter, rw_id[t], t)
  /\ rw_inner_locked' = MutexGuardDrop(rw_inner_locked)
  /\ rw_pc' = [rw_pc EXCEPT ![t] = "pending"]
  /\ UNCHANGED <<rw_write_lock, rw_read_locks, rw_next_waiter, rw_kind, rw_id,
                 rw_woken, rw_data, rw_released, rw_dropped, rw_why>>

\* The executor polls a task whose Waker was invoked.
RW_Repoll(t) ==
  /\ UNCHANGED <<m_vars, s_vars, l_vars>>
  /\ rw_pc[t] = "pending"
  /\ t \in rw_woken
  /\ rw_woken' = rw_woken \ {t}
  /\ rw_pc' = [rw_pc EXCEPT ![t] = "poll"]
  /\ UNCHANGED <<rw_write_lock, rw_read_locks, rw_inner_locked, rw_waiter,
                 rw_next_waiter, rw_kind, rw_id, rw_data, rw_released,
                 rw_dropped, rw_why>>

\* The executor polls a pending future whose Waker was not invoked.
RW_SpuriousPoll(t) ==
  /\ UNCHANGED <<m_vars, s_vars, l_vars>>
  /\ rw_pc[t] = "pending"
  /\ t \notin rw_woken
  /\ rw_pc' = [rw_pc EXCEPT ![t] = "poll"]
  /\ UNCHANGED <<rw_write_lock, rw_read_locks, rw_inner_locked, rw_waiter,
                 rw_next_waiter, rw_kind, rw_id, rw_woken, rw_data,
                 rw_released, rw_dropped, rw_why>>

\* A Waker invoked for a task that is not suspended in a future of this lock.
RW_StaleWake(t) ==
  /\ UNCHANGED <<m_vars, s_vars, l_vars>>
  /\ rw_pc[t] \in {"idle", "guard"}
  /\ t \in rw_woken
  /\ rw_woken' = rw_woken \ {t}
  /\ UNCHANGED <<rw_write_lock, rw_read_locks, rw_inner_locked, rw_waiter,
                 rw_next_waiter, rw_pc, rw_kind, rw_id, rw_data, rw_released,
                 rw_dropped, rw_why>>

\* Drop for AsyncWriteLockGuard / AsyncReadLockGuard: self.inner.lock()
RW_DropLock(t) ==
  /\ UNCHANGED <<m_vars, s_vars, l_vars>>
  /\ rw_pc[t] = "guard"
  /\ TryLock(rw_inner_locked).ok
  /\ rw_inner_locked' = TryLock(rw_inner_locked).locked
  /\ rw_pc' = [rw_pc EXCEPT ![t] = "drop"]
  /\ UNCHANGED <<rw_write_lock, rw_read_locks, rw_waiter, rw_next_waiter,
                 rw_kind, rw_id, rw_woken, rw_data, rw_released, rw_dropped,
                 rw_why>>

\* if let Some(&next_waiter) = inner.waiter.keys().next()
\*   { inner.waiter.remove(&next_waiter).expect(..).wake() }
RW_DropWake(t) ==
  /\ UNCHANGED <<m_vars, s_vars, l_vars>>
  /\ rw_pc[t] = "drop"
  /\ IF DOMAIN rw_waiter # {}
       THEN /\ rw_waiter' = MapRemove(rw_waiter, FirstKey(rw_waiter))
            /\ rw_woken' = rw_woken \cup {rw_waiter[FirstKey(rw_waiter)]}
       ELSE UNCHANGED <<rw_waiter, rw_woken>>
  /\ rw_pc' = [rw_pc EXCEPT ![t] = "drop_inner"]
  /\ UNCHANGED <<rw_write_lock, rw_read_locks, rw_inner_locked, rw_next_waiter,
                 rw_kind, rw_id, rw_data, rw_released, rw_dropped, rw_why>>

\* end of Drop::drop: the local `inner` is dropped
RW_DropUnlock(t) ==
  /\ UNCHANGED <<m_vars, s_vars, l_vars>>
  /\ rw_pc[t] = "drop_inner"
  /\ rw_inner_locked' = MutexGuardDrop(rw_inner_locked)
  /\ rw_pc' = [rw_pc EXCEPT ![t] = "drop_guard"]
  /\ UNCHANGED <<rw_write_lock, rw_read_locks, rw_waiter, rw_next_waiter,
                 rw_kind, rw_id, rw_woken, rw_data, rw_released, rw_dropped,
                 rw_why>>

\* then the field `guard` is dropped: WriteLockGuard or ReadLockGuard
RW_DropGuard(t) ==
  /\ UNCHANGED <<m_vars, s_vars, l_vars>>
  /\ rw_pc[t] = "drop_guard"
  /\ IF rw_kind[t] = "write"
       THEN rw_write_lock' = WriteLockGuardDrop(rw_write_lock) /\ UNCHANGED rw_read_locks
       ELSE rw_read_locks' = ReadLockGuardDrop(rw_read_locks) /\ UNCHANGED rw_write_lock
  /\ rw_pc' = [rw_pc EXCEPT ![t] = "idle"]
  /\ rw_kind' = [rw_kind EXCEPT ![t] = "none"]
  /\ rw_released' = IF rw_kind[t] = "write" THEN rw_data ELSE rw_released
  /\ rw_why' = IF rw_kind[t] = "write"
                THEN [u \in DOMAIN rw_why |-> IF rw_why[u] = "writer" THEN "freed" ELSE rw_why[u]]
                ELSE rw_why
  /\ UNCHANGED <<rw_inner_locked, rw_waiter, rw_next_waiter, rw_id, rw_woken,
                 rw_data, rw_dropped>>

\* DerefMut for AsyncWriteLockGuard: the task writes through its guard a value
\* other than the one stored
RW_Write(t) ==
  /\ UNCHANGED <<m_vars, s_vars, l_vars>>
  /\ rw_pc[t] = "guard"
  /\ rw_kind[t] = "write"
  /\ rw_data' = 1 - rw_data
  /\ UNCHANGED <<rw_write_lock, rw_read_locks, rw_inner_locked, rw_waiter,
                 rw_next_waiter, rw_pc, rw_kind, rw_id, rw_woken, rw_released,
                 rw_dropped, rw_why>>

\* The AsyncWriteLockFuture or AsyncReadLockFuture of t is dropped while it is
\* suspended: neither type has a Drop, the registry is not touched.
RW_Cancel(t) ==
  /\ UNCHANGED <<m_vars, s_vars, l_vars>>
  /\ rw_pc[t] = "pending"
  /\ rw_pc' = [rw_pc EXCEPT ![t] = "idle"]
  /\ rw_kind' = [rw_kind EXCEPT ![t] = "none"]
  /\ rw_id' = [rw_id EXCEPT ![t] = NoId]
  /\ rw_why' = WhySet(t, "none")
  /\ rw_dropped' = rw_dropped \cup {rw_id[t]}
  /\ UNCHANGED <<rw_write_lock, rw_read_locks, rw_inner_locked, rw_waiter,
                 rw_next_waiter, rw_woken, rw_data, rw_released>>

\* the steps a task takes once lock() or read() was called, and the executor's
\* re-poll
RW_Progress(t) ==
  \/ rw_pc[t] = "poll" /\ (RW_WriteCheck(t) \/ RW_ReadCheck(t))
  \/ RW_WriteSwap(t) \/ RW_ReadAdd(t) \/ RW_AllocLock(t) \/ RW_Alloc(t)
  \/ RW_RegLock(t) \/ RW_Register(t) \/ RW_Repoll(t)
  \/ RW_DropLock(t) \/ RW_DropWake(t) \/ RW_DropUnlock(t) \/ RW_DropGuard(t)

RWNext ==
  \E t \in Tasks :
    \/ RW_WriteCheck(t) \/ RW_WriteSwap(t) \/ RW_ReadCheck(t) \/ RW_ReadAdd(t)
    \/ RW_AllocLock(t) \/ RW_Alloc(t) \/ RW_RegLock(t) \/ RW_Register(t)
    \/ RW_Repoll(t) \/ RW_SpuriousPoll(t) \/ RW_StaleWake(t)
    \/ RW_DropLock(t) \/ RW_DropWake(t) \/ RW_DropUnlock(t) \/ RW_DropGuard(t)

\* -------------------------------------------------------- sync::Semaphore
\* an up() that wakes without adding the permit
SemUpLost(count) == count

\* Semaphore::up: count.fetch_add(1)
SemUp(count) == U32Inc(count)

\* Semaphore::try_down after the load: `if value > 0`
TryDownOk(value) == U32Pos(value)

\* a try_down that stores the loaded value back on both branches
TryDownStoreKeep(value) == value

\* Semaphore::try_down: the value it stores, value - 1 or (the "dummy" store) value
TryDownStore(value) == IF U32Pos(value) THEN U32Dec(value) ELSE value

\* ---------------------------------- history of the semaphore (not in the code)
NoHandOver ==
  [st |-> "none", w |-> 0, u |-> 0, pre |-> 0, target |-> 0, otherUp |-> FALSE,
   ready |-> FALSE, post |-> 0]

HoActive == s_ho.st \in {"up", "woken", "upped"}

\* the task parked under the smallest registered id, or 0
ParkedFirst ==
  IF \E k \in DOMAIN s_waiter :
       /\ \A j \in DOMAIN s_waiter : k <= j
       /\ s_pc[s_waiter[k]] = "pending"
       /\ s_id[s_waiter[k]] = k
    THEN s_waiter[CHOOSE k \in DOMAIN s_waiter : \A j \in DOMAIN s_waiter : k <= j]
    ELSE 0

\* after a step of a down() attempt by t that is not the end of the observed poll
HoDownStep(t) ==
  IF ~HoActive THEN s_ho
  ELSE IF t = s_ho.w /\ s_ho.st = "upped" THEN s_ho
  ELSE NoHandOver

\* after the end of a try_down by t: the observed waiter's poll ends the observation
HoDownEnd(t, ok, count) ==
  IF HoActive /\ t = s_ho.w /\ s_ho.st = "upped"
    THEN [s_ho EXCEPT !.st = "done", !.ready = ok, !.post = count]
    ELSE HoDownStep(t)

\* after the fetch_add of an up() by t
HoUpAdd(t) ==
  IF HoActive THEN [s_ho EXCEPT !.otherUp = TRUE]
  ELSE IF ParkedFirst # 0
    THEN [NoHandOver EXCEPT !.st = "up", !.w = ParkedFirst, !.u = t, !.pre = s_count]
    ELSE NoHandOver

\* after a later step of an up() by t; `target` is the task it woke (0: none)
HoUpStep(t, from, to, target) ==
  IF ~HoActive THEN s_ho
  ELSE IF t = s_ho.u /\ s_ho.st = from
    THEN [s_ho EXCEPT !.st = to, !.target = IF to = "woken" THEN target ELSE @]
    ELSE [s_ho EXCEPT !.otherUp = TRUE]

OthersIdle(t) == \A o \in SemTasks \ {t} : s_pc[o] = "idle"

\* --------------------------------------------------------- AsyncSemaphore
InitSem(c) ==
  /\ s_count = c
  /\ s_inner_locked = FALSE
  /\ s_waiter = EmptyMap
  /\ s_next_waiter = 0
  /\ s_pc = [t \in SemTasks |-> "idle"]
  /\ s_id = [t \in SemTasks |-> NoId]
  /\ s_value = [t \in SemTasks |-> 0]
  /\ s_woken = {}
  /\ s_initial = c
  /\ s_downs = 0
  /\ s_ups = 0
  /\ s_up_wakes = 0
  /\ s_ho = NoHandOver
  /\ s_rt = "downs"
  /\ s_dropped = {}

\* AsyncSemaphore::down, fast path: the load of try_down
S_Down(t) ==
  /\ UNCHANGED <<m_vars, rw_vars, l_vars>>
  /\ s_pc[t] = "idle"
  /\ s_next_waiter < MaxId
  /\ s_value' = [s_value EXCEPT ![t] = s_count]
  /\ s_pc' = [s_pc EXCEPT ![t] = "fast_store"]
  /\ s_ho' = HoDownStep(t)
  /\ s_rt' = IF OthersIdle(t) /\ s_rt = "downs" THEN "downs" ELSE "broken"
  /\ UNCHANGED <<s_count, s_inner_locked, s_waiter, s_next_waiter, s_id,
                 s_woken, s_initial, s_downs, s_ups, s_up_wakes, s_dropped>>

\* AsyncSemaphoreFuture::poll: the load of try_down
S_Poll(t) ==
  /\ UNCHANGED <<m_vars, rw_vars, l_vars>>
  /\ s_pc[t] = "poll"
  /\ s_value' = [s_value EXCEPT ![t] = s_count]
  /\ s_pc' = [s_pc EXCEPT ![t] = "poll_store"]
  /\ s_ho' = HoDownStep(t)
  /\ UNCHANGED <<s_count, s_inner_locked, s_waiter, s_next_waiter, s_id,
                 s_woken, s_initial, s_downs, s_ups, s_up_wakes, s_rt,
                 s_dropped>>

\* try_down: the store, and Ok(()) or Err(()); down() returns or goes on to the
\* slow path, poll() returns Ready or goes on to register
S_DownStore(t) ==
  /\ UNCHANGED <<m_vars, rw_vars, l_vars>>
  /\ s_pc[t] \in {"fast_store", "poll_store"}
  /\ s_count' = TryDownStore(s_value[t])
  /\ s_value' = [s_value EXCEPT ![t] = 0]
  /\ IF TryDownOk(s_value[t])
       THEN /\ s_pc' = [s_pc EXCEPT ![t] = "idle"]
            /\ s_id' = [s_id EXCEPT ![t] = NoId]
            /\ s_downs' = s_downs + 1
            /\ s_rt' = s_rt
       ELSE /\ s_pc' = [s_pc EXCEPT ![t] =
                 IF s_pc[t] = "fast_store" THEN "alloc_spin" ELSE "reg_spin"]
            /\ s_rt' = "broken"
            /\ UNCHANGED <<s_id, s_downs>>
  /\ s_ho' = HoDownEnd(t, TryDownOk(s_value[t]), TryDownStore(s_value[t]))
  /\ UNCHANGED <<s_inner_locked, s_waiter, s_next_waiter, s_woken, s_initial,
                 s_ups, s_up_wakes, s_dropped>>

\* down(), slow path: let mut inner = self.inner.lock()
S_AllocLock(t) ==
  /\ UNCHANGED <<m_vars, rw_vars, l_vars>>
  /\ s_pc[t] = "alloc_spin"
  /\ TryLock(s_inner_locked).ok
  /\ s_inner_locked' = TryLock(s_inner_locked).locked
  /\ s_pc' = [s_pc EXCEPT ![t] = "alloc"]
  /\ s_ho' = HoDownStep(t)
  /\ UNCHANGED <<s_count, s_waiter, s_next_waiter, s_id, s_value, s_woken,
                 s_initial, s_downs, s_ups, s_up_wakes, s_rt, s_dropped>>

\* current_id = inner.next_waiter; inner.next_waiter += 1; drop(inner); ...await
S_Alloc(t) ==
  /\ UNCHANGED <<m_vars, rw_vars, l_vars>>
  /\ s_pc[t] = "alloc"
  /\ s_id' = [s_id EXCEPT ![t] = s_next_waiter]
  /\ s_next_waiter' = s_next_waiter + 1
  /\ s_inner_locked' = MutexGuardDrop(s_inner_locked)
  /\ s_pc' = [s_pc EXCEPT ![t] = "poll"]
  /\ s_ho' = HoDownStep(t)
  /\ UNCHANGED <<s_count, s_waiter, s_value, s_woken, s_initial, s_downs,
                 s_ups, s_up_wakes, s_rt, s_dropped>>

\* poll(), try_down failed: let mut inner = this.inner.lock()
S_RegLock(t) ==
  /\ UNCHANGED <<m_vars, rw_vars, l_vars>>
  /\ s_pc[t] = "reg_spin"
  /\ TryLock(s_inner_locked).ok
  /\ s_inner_locked' = TryLock(s_inner_locked).locked
  /\ s_pc' = [s_pc EXCEPT ![t] = "reg"]
  /\ s_ho' = HoDownStep(t)
  /\ UNCHANGED <<s_count, s_waiter, s_next_waiter, s_id, s_value, s_woken,
                 s_initial, s_downs, s_ups, s_up_wakes, s_rt, s_dropped>>

\* inner.waiter.insert(this.id, cx.waker().clone()); drop(inner); Poll::Pending
S_Register(t) ==
  /\ UNCHANGED <<m_vars, rw_vars, l_vars>>
  /\ s_pc[t] = "reg"
  /\ s_waiter' = MapInsert(s_waiter, s_id[t], t)
  /\ s_inner_locked' = MutexGuardDrop(s_inner_locked)
  /\ s_pc' = [s_pc EXCEPT ![t] = "pending"]
  /\ s_ho' = HoDownStep(t)
  /\ UNCHANGED <<s_count, s_next_waiter, s_id, s_value, s_woken, s_initial,
                 s_downs, s_ups, s_up_wakes, s_rt, s_dropped>>

\* The executor polls a task whose Waker was invoked.
S_Repoll(t) ==
  /\ UNCHANGED <<m_vars, rw_vars, l_vars>>
  /\ s_pc[t] = "pending"
  /\ t \in s_woken
  /\ s_woken' = s_woken \ {t}
  /\ s_pc' = [s_pc EXCEPT ![t] = "poll"]
  /\ s_ho' = HoDownStep(t)
  /\ UNCHANGED <<s_count, s_inner_locked, s_waiter, s_next_waiter, s_id,
                 s_value, s_initial, s_downs, s_ups, s_up_wakes, s_rt,
                 s_dropped>>

\* The executor polls a pending future whose Waker was not invoked.
S_SpuriousPoll(t) ==
  /\ UNCHANGED <<m_vars, rw_vars, l_vars>>
  /\ s_pc[t] = "pending"
  /\ t \notin s_woken
  /\ s_pc' = [s_pc EXCEPT ![t] = "poll"]
  /\ s_ho' = HoDownStep(t)
  /\ UNCHANGED <<s_count, s_inner_locked, s_waiter, s_next_waiter, s_id,
                 s_value, s_woken, s_initial, s_downs, s_ups, s_up_wakes, s_rt,
                 s_dropped>>

\* A Waker invoked for a task that is not suspended in a down() of this semaphore.
S_StaleWake(t) ==
  /\ UNCHANGED <<m_vars, rw_vars, l_vars>>
  /\ s_pc[t] = "idle"
  /\ t \in s_woken
  /\ s_woken' = s_woken \ {t}
  /\ UNCHANGED <<s_count, s_inner_locked, s_waiter, s_next_waiter, s_pc, s_id,
                 s_value, s_initial, s_downs, s_ups, s_up_wakes, s_ho, s_rt,
                 s_dropped>>

\* The AsyncSemaphoreFuture of t is dropped while it is suspended: the type has
\* no Drop, the registry is not touched.
S_Cancel(t) ==
  /\ UNCHANGED <<m_vars, rw_vars, l_vars>>
  /\ s_pc[t] = "pending"
  /\ s_pc' = [s_pc EXCEPT ![t] = "idle"]
  /\ s_id' = [s_id EXCEPT ![t] = NoId]
  /\ s_dropped' = s_dropped \cup {s_id[t]}
  /\ s_ho' = NoHandOver
  /\ s_rt' = "broken"
  /\ UNCHANGED <<s_count, s_inner_locked, s_waiter, s_next_waiter, s_value,
                 s_woken, s_initial, s_downs, s_ups, s_up_wakes>>

\* AsyncSemaphore::up: self.sema.up()
S_Up(t) ==
  /\ UNCHANGED <<m_vars, rw_vars, l_vars>>
  /\ s_pc[t] = "idle"
  /\ s_ups < MaxUps
  /\ s_count' = SemUp(s_count)
  /\ s_ups' = s_ups + 1
  /\ s_pc' = [s_pc EXCEPT ![t] = "up_spin"]
  /\ s_ho' = HoUpAdd(t)
  /\ s_rt' = IF OthersIdle(t) /\ s_rt # "broken" THEN "ups" ELSE "broken"
  /\ UNCHANGED <<s_inner_locked, s_waiter, s_next_waiter, s_id, s_value,
                 s_woken, s_initial, s_downs, s_up_wakes, s_dropped>>

\* up(): let mut inner = self.inner.lock()
S_UpLock(t) ==
  /\ UNCHANGED <<m_vars, rw_vars, l_vars>>
  /\ s_pc[t] = "up_spin"
  /\ TryLock(s_inner_locked).ok
  /\ s_inner_locked' = TryLock(s_inner_locked).locked
  /\ s_pc' = [s_pc EXCEPT ![t] = "up"]
  /\ s_ho' = HoUpStep(t, "up", "up", 0)
  /\ UNCHANGED <<s_count, s_waiter, s_next_waiter, s_id, s_value, s_woken,
                 s_initial, s_downs, s_ups, s_up_wakes, s_rt, s_dropped>>

\* if let Some(&waiter_id) = inner.waiter.keys().next()
\*   { inner.waiter.remove(&waiter_id).unwrap().wake() }
S_UpWake(t) ==
  /\ UNCHANGED <<m_vars, rw_vars, l_vars>>
  /\ s_pc[t] = "up"
  /\ IF DOMAIN s_waiter # {}
       THEN /\ s_waiter' = MapRemove(s_waiter, FirstKey(s_waiter))
            /\ s_woken' = s_woken \cup {s_waiter[FirstKey(s_waiter)]}
            /\ s_ho' = HoUpStep(t, "up", "woken", s_waiter[FirstKey(s_waiter)])
       ELSE /\ UNCHANGED <<s_waiter, s_woken>>
            /\ s_ho' = HoUpStep(t, "up", "woken", 0)
  /\ s_up_wakes' = s_up_wakes + 1
  /\ s_pc' = [s_pc EXCEPT ![t] = "up_inner"]
  /\ UNCHANGED <<s_count, s_inner_locked, s_next_waiter, s_id, s_value,
                 s_initial, s_downs, s_ups, s_rt, s_dropped>>

\* end of up(): the local `inner` is dropped
S_UpUnlock(t) ==
  /\ UNCHANGED <<m_vars, rw_vars, l_vars>>
  /\ s_pc[t] = "up_inner"
  /\ s_inner_locked' = MutexGuardDrop(s_inner_locked)
  /\ s_pc' = [s_pc EXCEPT ![t] = "idle"]
  /\ s_ho' = HoUpStep(t, "woken", "upped", 0)
  /\ UNCHANGED <<s_count, s_waiter, s_next_waiter, s_id, s_value, s_woken,
                 s_initial, s_downs, s_ups, s_up_wakes, s_rt, s_dropped>>

SemNext ==
  \E t \in SemTasks :
    \/ S_Down(t) \/ S_Poll(t) \/ S_DownStore(t) \/ S_AllocLock(t) \/ S_Alloc(t)
    \/ S_RegLock(t) \/ S_Register(t) \/ S_Repoll(t) \/ S_SpuriousPoll(t)
    \/ S_StaleWake(t) \/ S_Up(t) \/ S_UpLock(t) \/ S_UpWake(t) \/ S_UpUnlock(t)

\* ------------------------------------- sync::Mutex and DataLock, used directly
\* a DataLock::try_lock that sets the flag and ignores the value swap() returns
DataLockTryLockBlind(locked) == [ok |-> TRUE, locked |-> TRUE]

\* DataLock::try_lock: locked.swap(true, SeqCst); Some iff the old value was false
DataLockTryLock(locked) == [ok |-> ~locked, locked |-> TRUE]

\* Drop for TryDataLock: locked.swap(false, SeqCst)
TryDataLockDrop(locked) == FALSE

\* DataRWLock::new: no write lock, no read locks, no core holds a guard
InitDataRW ==
  /\ drw_write_lock = FALSE
  /\ drw_read_locks = 0
  /\ drw_pc = [c \in Cores |-> "idle"]

\* Semaphore::new(initial): flag clear, no call in progress
InitFlagSem(initial) ==
  /\ sem_flag = FALSE
  /\ sem_count = initial
  /\ sem_pc = [c \in Cores |-> "idle"]
  /\ sem_c = [c \in Cores |-> 0]
  /\ sem_initial = initial
  /\ sem_ups = 0
  /\ sem_downs = 0

\* Mutex::new / DataLock::new: unlocked, no core holds a guard
InitLocks ==
  /\ mx_locked = FALSE
  /\ mx_pc = [c \in Cores |-> "idle"]
  /\ dl_locked = FALSE
  /\ dl_pc = [c \in Cores |-> "idle"]
  /\ sp_flag = FALSE
  /\ sp_pc = [c \in Cores |-> "idle"]
  /\ sp_count = [c \in Cores |-> 0]
  /\ InitDataRW
  /\ InitFlagSem(0)

\* Mutex::try_lock called by core c
MX_TryLock(c) ==
  /\ UNCHANGED <<m_vars, rw_vars, s_vars>>
  /\ mx_pc[c] \in {"idle", "none"}
  /\ LET r == TryLock(mx_locked) IN
       /\ mx_locked' = r.locked
       /\ mx_pc' = [mx_pc EXCEPT ![c] = IF r.ok THEN "guard" ELSE "none"]
  /\ UNCHANGED <<dl_locked, dl_pc, sp_vars, lg_vars>>

\* Mutex::lock called by core c: one iteration of the loop around try_lock
MX_Lock(c) ==
  /\ UNCHANGED <<m_vars, rw_vars, s_vars>>
  /\ mx_pc[c] \in {"idle", "none", "spin"}
  /\ LET r == TryLock(mx_locked) IN
       /\ mx_locked' = r.locked
       /\ mx_pc' = [mx_pc EXCEPT ![c] = IF r.ok THEN "guard" ELSE "spin"]
  /\ UNCHANGED <<dl_locked, dl_pc, sp_vars, lg_vars>>

\* the MutexGuard of core c is dropped
MX_Drop(c) ==
  /\ UNCHANGED <<m_vars, rw_vars, s_vars>>
  /\ mx_pc[c] = "guard"
  /\ mx_locked' = MutexGuardDrop(mx_locked)
  /\ mx_pc' = [mx_pc EXCEPT ![c] = "idle"]
  /\ UNCHANGED <<dl_locked, dl_pc, sp_vars, lg_vars>>

\* DataLock::try_lock called by core c
DL_TryLock(c) ==
  /\ UNCHANGED <<m_vars, rw_vars, s_vars>>
  /\ dl_pc[c] \in {"idle", "none"}
  /\ LET r == DataLockTryLock(dl_locked) IN
       /\ dl_locked' = r.locked
       /\ dl_pc' = [dl_pc EXCEPT ![c] = IF r.ok THEN "guard" ELSE "none"]
  /\ UNCHANGED <<mx_locked, mx_pc, sp_vars, lg_vars>>

\* DataLock::lock called by core c: one iteration of the loop around try_lock
DL_Lock(c) ==
  /\ UNCHANGED <<m_vars, rw_vars, s_vars>>
  /\ dl_pc[c] \in {"idle", "none", "spin"}
  /\ LET r == DataLockTryLock(dl_locked) IN
       /\ dl_locked' = r.locked
       /\ dl_pc' = [dl_pc EXCEPT ![c] = IF r.ok THEN "guard" ELSE "spin"]
  /\ UNCHANGED <<mx_locked, mx_pc, sp_vars, lg_vars>>

\* the TryDataLock of core c is dropped
DL_Drop(c) ==
  /\ UNCHANGED <<m_vars, rw_vars, s_vars>>
  /\ dl_pc[c] = "guard"
  /\ dl_locked' = TryDataLockDrop(dl_locked)
  /\ dl_pc' = [dl_pc EXCEPT ![c] = "idle"]
  /\ UNCHANGED <<mx_locked, mx_pc, sp_vars, lg_vars>>

LocksNext ==
  \E c \in Cores :
    \/ MX_TryLock(c) \/ MX_Lock(c) \/ MX_Drop(c)
    \/ DL_TryLock(c) \/ DL_Lock(c) \/ DL_Drop(c)

\* ---------------------------------------------------------------- Spinlock
\* a compare_and_swap that stores the new value whatever the current one is
\* and reports that it found the expected one
CompareAndSwapBlind(flag, current, new) == [old |-> current, flag |-> new]

\* AtomicBool::compare_and_swap(current, new): stores new iff the value is
\* current, returns the previous value
CompareAndSwap(flag, current, new) ==
  [old |-> flag, flag |-> IF flag = current THEN new ELSE flag]

\* Spinlock::aquire called by core c: one iteration of
\* `while flag.compare_and_swap(false, true) {}`
SP_Aquire(c) ==
  /\ UNCHANGED <<m_vars, rw_vars, s_vars>>
  /\ sp_pc[c] \in {"idle", "spin"}
  /\ sp_count[c] < MaxAquires
  /\ LET r == CompareAndSwap(sp_flag, FALSE, TRUE) IN
       /\ sp_flag' = r.flag
       /\ sp_pc' = [sp_pc EXCEPT ![c] = IF r.old THEN "spin" ELSE "held"]
       /\ sp_count' = [sp_count EXCEPT ![c] = IF r.old THEN @ ELSE @ + 1]
  /\ UNCHANGED <<mx_locked, mx_pc, dl_locked, dl_pc, lg_vars>>

\* Spinlock::release called by the core that last returned from aquire()
SP_Release(c) ==
  /\ UNCHANGED <<m_vars, rw_vars, s_vars>>
  /\ sp_pc[c] = "held"
  /\ sp_flag' = FALSE
  /\ sp_pc' = [sp_pc EXCEPT ![c] = "idle"]
  /\ UNCHANGED <<mx_locked, mx_pc, dl_locked, dl_pc, sp_count, lg_vars>>

SpinNext == \E c \in Cores : SP_Aquire(c) \/ SP_Release(c)

\* ------------------------------------------------ DataRWLock (datarwlock.rs)
\* DataRWLock::try_lock: write_lock.swap(true, SeqCst); Some iff the old value
\* was false; read_locks is not looked at
DataRWTryLock(write_lock) == [ok |-> ~write_lock, write_lock |-> TRUE]

\* Drop for DataWriteLock: write_lock.swap(false, SeqCst)
DataWriteLockDrop(write_lock) == FALSE

\* DataRWLock::read: read_locks.fetch_add(1, AcqRel); never refused
DataRWRead(read_locks) == U32Inc(read_locks)

\* Drop for DataReadLock: read_locks.fetch_sub(1, AcqRel)
DataReadLockDrop(read_locks) == U32Dec(read_locks)

\* DataRWLock::try_lock called by core c
DRW_TryLock(c) ==
  /\ UNCHANGED <<m_vars, rw_vars, s_vars>>
  /\ drw_pc[c] \in {"idle", "none"}
  /\ LET r == DataRWTryLock(drw_write_lock) IN
       /\ drw_write_lock' = r.write_lock
       /\ drw_pc' = [drw_pc EXCEPT ![c] = IF r.ok THEN "write" ELSE "none"]
  /\ UNCHANGED <<mx_locked, mx_pc, dl_locked, dl_pc, sp_vars, drw_read_locks,
                 sem_vars>>

\* DataRWLock::lock called by core c: one iteration of the loop around try_lock
DRW_Lock(c) ==
  /\ UNCHANGED <<m_vars, rw_vars, s_vars>>
  /\ drw_pc[c] \in {"idle", "none", "spin"}
  /\ LET r == DataRWTryLock(drw_write_lock) IN
       /\ drw_write_lock' = r.write_lock
       /\ drw_pc' = [drw_pc EXCEPT ![c] = IF r.ok THEN "write" ELSE "spin"]
  /\ UNCHANGED <<mx_locked, mx_pc, dl_locked, dl_pc, sp_vars, drw_read_locks,
                 sem_vars>>

\* DataRWLock::read called by core c
DRW_Read(c) ==
  /\ UNCHANGED <<m_vars, rw_vars, s_vars>>
  /\ drw_pc[c] \in {"idle", "none"}
  /\ drw_read_locks' = DataRWRead(drw_read_locks)
  /\ drw_pc' = [drw_pc EXCEPT ![c] = "read"]
  /\ UNCHANGED <<mx_locked, mx_pc, dl_locked, dl_pc, sp_vars, drw_write_lock,
                 sem_vars>>

\* the DataWriteLock of core c is dropped
DRW_DropWrite(c) ==
  /\ UNCHANGED <<m_vars, rw_vars, s_vars>>
  /\ drw_pc[c] = "write"
  /\ drw_write_lock' = DataWriteLockDrop(drw_write_lock)
  /\ drw_pc' = [drw_pc EXCEPT ![c] = "idle"]
  /\ UNCHANGED <<mx_locked, mx_pc, dl_locked, dl_pc, sp_vars, drw_read_locks,
                 sem_vars>>

\* the DataReadLock of core c is dropped
DRW_DropRead(c) ==
  /\ UNCHANGED <<m_vars, rw_vars, s_vars>>
  /\ drw_pc[c] = "read"
  /\ drw_read_locks' = DataReadLockDrop(drw_read_locks)
  /\ drw_pc' = [drw_pc EXCEPT ![c] = "idle"]
  /\ UNCHANGED <<mx_locked, mx_pc, dl_locked, dl_pc, sp_vars, drw_write_lock,
                 sem_vars>>

DataRWNext ==
  \E c \in Cores :
    \/ DRW_TryLock(c) \/ DRW_Lock(c) \/ DRW_Read(c)
    \/ DRW_DropWrite(c) \/ DRW_DropRead(c)

\* -------------------------------------- Semaphore with a flag (semaphore.rs)
\* the calls of core c that hold or wait for the flag
SemUpRunning == {c \in Cores : sem_pc[c] \in {"up_spin", "up_get", "up_set", "up_release"}}

\* Semaphore::up called by core c: one iteration of
\* `while self.flag.compare_and_swap(false, true, Relaxed) != false { }`
SEM_UpAquire(c) ==
  /\ UNCHANGED <<m_vars, rw_vars, s_vars>>
  /\ \/ sem_pc[c] = "idle" /\ sem_ups + Cardinality(SemUpRunning) < MaxUps
     \/ sem_pc[c] = "up_spin"
  /\ LET r == CompareAndSwap(sem_flag, FALSE, TRUE) IN
       /\ sem_flag' = r.flag
       /\ sem_pc' = [sem_pc EXCEPT ![c] = IF r.old THEN "up_spin" ELSE "up_get"]
  /\ UNCHANGED <<mx_locked, mx_pc, dl_locked, dl_pc, sp_vars, drw_vars, sem_count, sem_c, sem_initial, sem_ups, sem_downs>>

\* up: let c = self.count.get()
SEM_UpGet(c) ==
  /\ UNCHANGED <<m_vars, rw_vars, s_vars>>
  /\ sem_pc[c] = "up_get"
  /\ sem_c' = [sem_c EXCEPT ![c] = sem_count]
  /\ sem_pc' = [sem_pc EXCEPT ![c] = "up_set"]
  /\ UNCHANGED <<mx_locked, mx_pc, dl_locked, dl_pc, sp_vars, drw_vars, sem_flag, sem_count, sem_initial, sem_ups, sem_downs>>

\* up: self.count.set(c + 1)
SEM_UpSet(c) ==
  /\ UNCHANGED <<m_vars, rw_vars, s_vars>>
  /\ sem_pc[c] = "up_set"
  /\ sem_count' = U32Inc(sem_c[c])
  /\ sem_pc' = [sem_pc EXCEPT ![c] = "up_release"]
  /\ UNCHANGED <<mx_locked, mx_pc, dl_locked, dl_pc, sp_vars, drw_vars, sem_flag, sem_c, sem_initial, sem_ups, sem_downs>>

\* up: self.flag.store(false, Release); the call returns
SEM_UpRelease(c) ==
  /\ UNCHANGED <<m_vars, rw_vars, s_vars>>
  /\ sem_pc[c] = "up_release"
  /\ sem_flag' = FALSE
  /\ sem_pc' = [sem_pc EXCEPT ![c] = "idle"]
  /\ sem_c' = [sem_c EXCEPT ![c] = 0]
  /\ sem_ups' = sem_ups + 1
  /\ UNCHANGED <<mx_locked, mx_pc, dl_locked, dl_pc, sp_vars, drw_vars, sem_count, sem_initial, sem_downs>>

\* Semaphore::try_down called by core c: one iteration of the loop on the flag
SEM_DownAquire(c) ==
  /\ UNCHANGED <<m_vars, rw_vars, s_vars>>
  /\ sem_pc[c] \in {"idle", "down_spin"}
  /\ LET r == CompareAndSwap(sem_flag, FALSE, TRUE) IN
       /\ sem_flag' = r.flag
       /\ sem_pc' = [sem_pc EXCEPT ![c] = IF r.old THEN "down_spin" ELSE "down_get"]
  /\ UNCHANGED <<mx_locked, mx_pc, dl_locked, dl_pc, sp_vars, drw_vars, sem_count, sem_c, sem_initial, sem_ups, sem_downs>>

\* try_down: let c = self.count.get()
SEM_DownGet(c) ==
  /\ UNCHANGED <<m_vars, rw_vars, s_vars>>
  /\ sem_pc[c] = "down_get"
  /\ sem_c' = [sem_c EXCEPT ![c] = sem_count]
  /\ sem_pc' = [sem_pc EXCEPT ![c] = "down_set"]
  /\ UNCHANGED <<mx_locked, mx_pc, dl_locked, dl_pc, sp_vars, drw_vars, sem_flag, sem_count, sem_initial, sem_ups, sem_downs>>

\* try_down: let success = if c > 0 { self.count.set(c - 1); true } else { false }
SEM_DownSet(c) ==
  /\ UNCHANGED <<m_vars, rw_vars, s_vars>>
  /\ sem_pc[c] = "down_set"
  /\ sem_count' = IF U32Pos(sem_c[c]) THEN U32Dec(sem_c[c]) ELSE sem_count
  /\ sem_pc' = [sem_pc EXCEPT ![c] = "down_release"]
  /\ UNCHANGED <<mx_locked, mx_pc, dl_locked, dl_pc, sp_vars, drw_vars, sem_flag, sem_c, sem_initial, sem_ups, sem_downs>>

\* a try_down that returns Err without clearing the flag
SEM_DownReleaseErrKeep(c) ==
  /\ UNCHANGED <<m_vars, rw_vars, s_vars>>
  /\ sem_pc[c] = "down_release"
  /\ sem_flag' = IF U32Pos(sem_c[c]) THEN FALSE ELSE sem_flag
  /\ sem_pc' = [sem_pc EXCEPT ![c] = "idle"]
  /\ sem_downs' = IF U32Pos(sem_c[c]) THEN sem_downs + 1 ELSE sem_downs
  /\ sem_c' = [sem_c EXCEPT ![c] = 0]
  /\ UNCHANGED <<mx_locked, mx_pc, dl_locked, dl_pc, sp_vars, drw_vars, sem_count, sem_initial, sem_ups>>

\* try_down: self.flag.store(false, Release); Ok(()) if success, else Err(..)
SEM_DownRelease(c) ==
  /\ UNCHANGED <<m_vars, rw_vars, s_vars>>
  /\ sem_pc[c] = "down_release"
  /\ sem_flag' = FALSE
  /\ sem_pc' = [sem_pc EXCEPT ![c] = "idle"]
  /\ sem_downs' = IF U32Pos(sem_c[c]) THEN sem_downs + 1 ELSE sem_downs
  /\ sem_c' = [sem_c EXCEPT ![c] = 0]
  /\ UNCHANGED <<mx_locked, mx_pc, dl_locked, dl_pc, sp_vars, drw_vars, sem_count, sem_initial, sem_ups>>

FlagSemNext ==
  \E c \in Cores :
    \/ SEM_UpAquire(c) \/ SEM_UpGet(c) \/ SEM_UpSet(c) \/ SEM_UpRelease(c)
    \/ SEM_DownAquire(c) \/ SEM_DownGet(c) \/ SEM_DownSet(c) \/ SEM_DownRelease(c)

\* --------------------------------------------------------- specifications
\* one AsyncMutex shared by the tasks
MutexInit == InitMutex /\ InitRW /\ InitSem(0) /\ InitLocks
SpecMutex == MutexInit /\ [][MutexNext]_vars

\* one AsyncRWLock shared by the tasks
RWInit == InitMutex /\ InitRW /\ InitSem(0) /\ InitLocks
SpecRW == RWInit /\ [][RWNext]_vars

\* one AsyncSemaphore::new(c) shared by the tasks
SemInit == InitMutex /\ InitRW /\ InitLocks /\ \E c \in 0..MaxCount : InitSem(c)
SpecSem == SemInit /\ [][SemNext]_vars

\* one AsyncMutex shared by NumOrderTasks tasks, with MaxOrderId waiter ids
InitMutexOrder ==
  /\ m_locked = FALSE
  /\ m_inner_locked = FALSE
  /\ m_waiter = EmptyMap
  /\ m_next_waiter = 0
  /\ m_pc = [t \in OrderTasks |-> "idle"]
  /\ m_id = [t \in OrderTasks |-> NoId]
  /\ m_woken = {}
  /\ m_data = 0
  /\ m_released = 0
  /\ m_dropped = {}
  /\ m_ord = NoOrder
  /\ m_obs = PollsOff
  /\ m_calls = [t \in OrderTasks |-> 0]
MutexOrderNext ==
  \E t \in OrderTasks :
    \/ M_LockOrder(t) \/ M_AllocLock(t) \/ M_Alloc(t) \/ M_Poll(t) \/ M_RegLock(t)
    \/ M_Register(t) \/ M_Repoll(t) \/ M_SpuriousPoll(t) \/ M_StaleWake(t)
    \/ M_DropLock(t) \/ M_DropWake(t) \/ M_DropUnlock(t) \/ M_DropGuard(t)
MutexOrderInit == InitMutexOrder /\ InitRW /\ InitSem(0) /\ InitLocks
SpecMutexOrder == MutexOrderInit /\ [][MutexOrderNext]_vars

\* the behaviours of SpecMutex, of SpecRW and of SpecSem: a run uses one of the
\* three adapters, the other two stay as constructed
AdaptersNext ==
  \/ InitRW /\ InitSem(0) /\ MutexNext
  \/ InitMutex /\ InitSem(0) /\ RWNext
  \/ InitMutex /\ InitRW /\ SemNext
SpecAdapters == SemInit /\ [][AdaptersNext]_vars

\* the three adapters with futures that may be dropped before they resolve; a
\* run uses one of the adapters
CancelNext ==
  \/ InitRW /\ InitSem(0) /\ (MutexNext \/ \E t \in Tasks : M_Cancel(t))
  \/ InitMutex /\ InitSem(0) /\ (RWNext \/ \E t \in Tasks : RW_Cancel(t))
  \/ InitMutex /\ InitRW /\ (SemNext \/ \E t \in SemTasks : S_Cancel(t))
SpecCancel == SemInit /\ [][CancelNext]_vars

\* one AsyncRWLock shared by the tasks, the history rw_why recorded
RWWhyInit ==
  /\ InitMutex /\ InitSem(0) /\ InitLocks
  /\ rw_write_lock = FALSE
  /\ rw_read_locks = 0
  /\ rw_inner_locked = FALSE
  /\ rw_waiter = EmptyMap
  /\ rw_next_waiter = 0
  /\ rw_pc = [t \in Tasks |-> "idle"]
  /\ rw_kind = [t \in Tasks |-> "none"]
  /\ rw_id = [t \in Tasks |-> NoId]
  /\ rw_woken = {}
  /\ rw_data = 0
  /\ rw_released = 0
  /\ rw_dropped = {}
  /\ rw_why = [t \in Tasks |-> "none"]
SpecRWWhy == RWWhyInit /\ [][RWNext]_vars

\* AsyncMutex and AsyncRWLock with tasks that write the data through their
\* exclusive guards; a run uses one of the two
WritersNext ==
  \/ InitRW /\ (MutexNext \/ \E t \in Tasks : M_Write(t))
  \/ InitMutex /\ (RWNext \/ \E t \in Tasks : RW_Write(t))
SpecWriters == MutexInit /\ [][WritersNext]_vars

\* one Mutex and one DataLock shared by the cores
SpecLocks == MutexInit /\ [][LocksNext]_vars

\* one AsyncSemaphore::new(c), c any u32 up to the largest, and tasks that call
\* up() only
SemWideInit ==
  /\ InitMutex /\ InitRW /\ InitLocks
  /\ \E c \in (0..MaxCount) \cup {U32Max - 1, U32Max} : InitSem(c)
\* up() calls only: the increments are unmatched
SemUpNext ==
  \E t \in SemTasks : S_Up(t) \/ S_UpLock(t) \/ S_UpWake(t) \/ S_UpUnlock(t)
SpecSemWide == SemWideInit /\ [][SemUpNext]_vars

\* the steps of the synchronous operations of task t on the AsyncMutex: id
\* allocation, one poll, the guard drop once it has started
M_Sync(t) ==
  \/ M_AllocLock(t) \/ M_Alloc(t) \/ M_Poll(t) \/ M_RegLock(t) \/ M_Register(t)
  \/ M_DropWake(t) \/ M_DropUnlock(t) \/ M_DropGuard(t)

\* the acquisitions of the registry lock: the successful iteration of the loop
\* of Mutex::lock on inner
M_InnerLock(t) == M_AllocLock(t) \/ M_RegLock(t)

\* the steps of the synchronous operations of task t on the AsyncSemaphore:
\* id allocation, one poll, up()
S_Sync(t) ==
  \/ S_Poll(t) \/ S_DownStore(t) \/ S_AllocLock(t) \/ S_Alloc(t) \/ S_RegLock(t)
  \/ S_Register(t) \/ S_UpLock(t) \/ S_UpWake(t) \/ S_UpUnlock(t)

S_InnerLock(t) == S_AllocLock(t) \/ S_RegLock(t) \/ S_UpLock(t)

\* one AsyncMutex or one AsyncSemaphore::new(0) shared by the tasks; the
\* running synchronous operation of every task is scheduled again and again
SyncFairInit == InitMutex /\ InitRW /\ InitSem(0) /\ InitLocks
SyncFairNext ==
  \/ InitRW /\ InitSem(0) /\ MutexNext
  \/ InitMutex /\ InitRW /\ SemNext
SpecSyncFair ==
  /\ SyncFairInit /\ [][SyncFairNext]_vars
  /\ \A t \in Tasks : WF_vars(M_Sync(t))
  /\ \A t \in SemTasks : WF_vars(S_Sync(t))

\* one Spinlock shared by the cores
SpecSpin == MutexInit /\ [][SpinNext]_vars

\* one DataRWLock shared by the cores
SpecDataRW == MutexInit /\ [][DataRWNext]_vars

\* one Semaphore::new(k) of semaphore.rs shared by the cores
FlagSemInit ==
  /\ InitMutex /\ InitRW /\ InitSem(0)
  /\ mx_locked = FALSE /\ mx_pc = [c \in Cores |-> "idle"]
  /\ dl_locked = FALSE /\ dl_pc = [c \in Cores |-> "idle"]
  /\ sp_flag = FALSE /\ sp_pc = [c \in Cores |-> "idle"]
  /\ sp_count = [c \in Cores |-> 0]
  /\ InitDataRW
  /\ \E k \in 0..MaxCount : InitFlagSem(k)
SpecFlagSem == FlagSemInit /\ [][FlagSemNext]_vars

\* an AsyncMutex and an AsyncRWLock on which read() is never called, driven by
\* the same steps: the mutex takes a step of task t, then the RWLock takes
\* the step of t at the same place (try_write is two memory operations)
M_Task(t) ==
  \/ M_Lock(t) \/ M_AllocLock(t) \/ M_Alloc(t) \/ M_Poll(t) \/ M_RegLock(t)
  \/ M_Register(t) \/ M_Repoll(t) \/ M_SpuriousPoll(t) \/ M_StaleWake(t)
  \/ M_DropLock(t) \/ M_DropWake(t) \/ M_DropUnlock(t) \/ M_DropGuard(t)
RW_WriterTask(t) ==
  \/ RW_WriteCheck(t) \/ RW_WriteSwap(t) \/ RW_AllocLock(t) \/ RW_Alloc(t)
  \/ RW_RegLock(t) \/ RW_Register(t) \/ RW_Repoll(t) \/ RW_SpuriousPoll(t)
  \/ RW_DropLock(t) \/ RW_DropWake(t) \/ RW_DropUnlock(t) \/ RW_DropGuard(t)
InStep == m_pc = rw_pc /\ m_woken = rw_woken
RW_Follow(t) ==
  \/ m_pc[t] # rw_pc[t] /\ RW_WriterTask(t)
  \/ m_pc = rw_pc /\ t \in rw_woken \ m_woken /\ RW_StaleWake(t)
LockstepNext ==
  \/ InStep /\ \E t \in Tasks : M_Task(t)
  \/ \E t \in Tasks : RW_Follow(t)
SpecLockstep == MutexInit /\ [][LockstepNext]_vars

\* ------------------------------------------------------- AsyncMutex claims
\* an AsyncMutexGuard exists from the successful try_lock until its field
\* `guard` has been dropped
MutexGuardHeld(t) == m_pc[t] \in {"guard", "drop", "drop_inner", "drop_guard"}

\* lock() was called and has not yet resolved
MutexRequested(t) ==
  m_pc[t] \in {"alloc_spin", "alloc", "poll", "reg_spin", "reg", "pending"}

\* C1: at most one AsyncMutexGuard of the AsyncMutex is outstanding in every
\* reachable state, whatever the interleaving of lock(), poll() and drop().
C1_MutualExclusion == Cardinality({t \in Tasks : MutexGuardHeld(t)}) <= 1

\* C1 witness: a second task's attempt failed while a guard was outstanding
C1_Witness ==
  \E t, u \in Tasks : t # u /\ m_pc[t] = "guard" /\ m_pc[u] = "pending"

\* C3: when a guard drop invokes a wake handle, the guard has already released
\* the blocking primitive (here: the data Mutex of the AsyncMutex is free at
\* the step that removes a registry entry and wakes it).
C3_ReleaseBeforeWake ==
  [][\A t \in Tasks :
       (m_pc[t] = "drop" /\ m_pc'[t] = "drop_inner" /\ m_woken' # m_woken)
         => ~m_locked]_vars

\* C4: no missed wakeup: never is the data lock free, no guard outstanding, no
\* wake in flight, and a future whose last poll returned Pending still waiting.
C4_NoMissedWakeup ==
  ~ ( /\ ~m_locked
      /\ \A t \in Tasks : ~MutexGuardHeld(t)
      /\ m_woken = {}
      /\ \E t \in Tasks : m_pc[t] = "pending" )

\* C5: every issued lock() eventually resolves when guards are dropped and
\* woken tasks are re-polled.  Stated on states: while a request is
\* outstanding, some step of a running call or a re-poll of a woken task is
\* enabled; in a state where none is, the request stays unresolved forever
\* although every task has taken all the steps weak fairness asks of it.
C5_RequestCanProgress ==
  (\E t \in Tasks : MutexRequested(t))
    => \E u \in Tasks : ENABLED M_Progress(u)

\* ------------------------------------------------------ AsyncRWLock claims
RWGuardHeld(t, kind) ==
  /\ rw_pc[t] \in {"guard", "drop", "drop_inner", "drop_guard"}
  /\ rw_kind[t] = kind

\* C2: never a write guard together with a read guard, never two write guards.
C2_ClassExclusion ==
  /\ Cardinality({t \in Tasks : RWGuardHeld(t, "write")}) <= 1
  /\ ~ ( /\ \E t \in Tasks : RWGuardHeld(t, "write")
         /\ \E t \in Tasks : RWGuardHeld(t, "read") )

\* ---------------------------------------------------- AsyncSemaphore claims
\* down() was called, failed its fast path and has not yet resolved
SemRequested(t) ==
  s_pc[t] \in {"alloc_spin", "alloc", "poll", "poll_store", "reg_spin", "reg", "pending"}

\* the steps of a running down()/up() call of t, and the re-poll of t when woken
S_Progress(t) ==
  \/ S_Poll(t) \/ S_DownStore(t) \/ S_AllocLock(t) \/ S_Alloc(t) \/ S_RegLock(t)
  \/ S_Register(t) \/ S_Repoll(t) \/ S_UpLock(t) \/ S_UpWake(t) \/ S_UpUnlock(t)

\* C6: the number of resolved down() calls is at most the initial count plus
\* the number of up() calls started.
C6_PermitSafety == s_downs <= s_initial + s_ups

\* C7: a down() that failed on count zero resolves once a matching up() was
\* called and nobody else takes the permit.  Stated on states: with initial
\* count 0, an up() called and no down() resolved so far (the permit was taken
\* by nobody), a waiting down() always has an enabled step of a running call
\* or an enabled re-poll; where none is enabled it waits forever.
C7_DownCanProgress ==
  (s_initial = 0 /\ s_ups > 0 /\ s_downs = 0 /\ \E t \in SemTasks : SemRequested(t))
    => \E u \in SemTasks : ENABLED S_Progress(u)

\* C8 as claimed: a parked waiter with the smallest id, then an up() that runs
\* to completion with no other down() attempt in between: the up() wakes that
\* waiter, the waiter's next poll is Ready and the count is what it was before
\* the up().
C8_HandOver ==
  /\ s_ho.st \in {"woken", "upped", "done"} => s_ho.target = s_ho.w
  /\ s_ho.st = "done" => s_ho.ready /\ s_ho.post = s_ho.pre

\* C8 amended: the same, when also no other up() call takes a step between the
\* start of the up() and the end of the waiter's next poll.
C8_HandOverAlone ==
  /\ (s_ho.st \in {"woken", "upped", "done"} /\ ~s_ho.otherUp) => s_ho.target = s_ho.w
  /\ (s_ho.st = "done" /\ ~s_ho.otherUp) => s_ho.ready /\ s_ho.post = s_ho.pre

\* C8 witness: a hand-over completed with no other up() and no other down()
C8_Witness == s_ho.st = "done" /\ ~s_ho.otherUp /\ s_ho.ready

\* C9: up() increments before it wakes; its wake step removes exactly the
\* smallest registered id and wakes that waiter, or, on an empty registry,
\* wakes nobody and leaves the registry unchanged.
C9_UpWakesSmallest ==
  [][\A t \in SemTasks :
       (s_pc[t] = "up" /\ s_pc'[t] = "up_inner") =>
         /\ s_up_wakes < s_ups
         /\ s_count' = s_count
         /\ IF DOMAIN s_waiter = {}
              THEN s_waiter' = s_waiter /\ s_woken' = s_woken
              ELSE \E k \in DOMAIN s_waiter :
                     /\ \A j \in DOMAIN s_waiter : k <= j
                     /\ DOMAIN s_waiter' = (DOMAIN s_waiter) \ {k}
                     /\ \A j \in DOMAIN s_waiter' : s_waiter'[j] = s_waiter[j]
                     /\ s_woken' = s_woken \cup {s_waiter[k]}]_vars

\* C9 witness: an up() has just woken the smaller of two registered ids
C9_Witness ==
  \E t \in SemTasks :
    /\ s_pc[t] = "up_inner"
    /\ s_woken # {}
    /\ DOMAIN s_waiter # {}
    /\ \A j \in DOMAIN s_waiter : j > 0

\* C10: N down() calls that each resolve, then N up() calls, one after the
\* other and with no other operation, leave the count at its initial value.
C10_RoundTrip ==
  (s_rt # "broken" /\ (\A t \in SemTasks : s_pc[t] = "idle") /\ s_downs = s_ups)
    => s_count = s_initial

\* C10 witness: a completed round trip of N >= 1 calls each
C10_Witness ==
  /\ s_rt = "ups"
  /\ \A t \in SemTasks : s_pc[t] = "idle"
  /\ s_downs = s_ups
  /\ s_downs >= 1

\* ------------------------------------------------- claims on several adapters
\* the wake step of a guard drop on registry w, woken set wk, giving w2, wk2:
\* it removes exactly the smallest registered id and invokes that waiter's wake
\* handle, and nothing else; on an empty registry it changes nothing
WakesSmallest(w, wk, w2, wk2) ==
  IF DOMAIN w = {}
    THEN w2 = w /\ wk2 = wk
    ELSE \E k \in DOMAIN w :
           /\ \A j \in DOMAIN w : k <= j
           /\ DOMAIN w2 = (DOMAIN w) \ {k}
           /\ \A j \in DOMAIN w2 : w2[j] = w[j]
           /\ wk2 = wk \cup {w[k]}

\* C11: every drop of an AsyncMutexGuard, AsyncWriteLockGuard or
\* AsyncReadLockGuard removes from the registry and wakes exactly the waiter of
\* the smallest registered id; on an empty registry it wakes nobody and leaves
\* the registry unchanged.
C11_DropWakesSmallest ==
  [][/\ \A t \in Tasks :
          (MutexGuardHeld(t) /\ m_pc'[t] # m_pc[t])
            => IF m_pc[t] = "drop"
                 THEN WakesSmallest(m_waiter, m_woken, m_waiter', m_woken')
                 ELSE m_waiter' = m_waiter /\ m_woken' = m_woken
     /\ \A t \in Tasks :
          ((RWGuardHeld(t, "write") \/ RWGuardHeld(t, "read")) /\ rw_pc'[t] # rw_pc[t])
            => IF rw_pc[t] = "drop"
                 THEN WakesSmallest(rw_waiter, rw_woken, rw_waiter', rw_woken')
                 ELSE rw_waiter' = rw_waiter /\ rw_woken' = rw_woken]_vars

\* C11 witness: a read guard's drop has just woken the smaller of two
\* registered ids; the other is still registered
C11_Witness ==
  \E t \in Tasks :
    /\ rw_pc[t] = "drop_inner"
    /\ rw_kind[t] = "read"
    /\ rw_woken # {}
    /\ DOMAIN rw_waiter = {1}

\* the ids of the live futures of one adapter: pairwise distinct, all below
\* next_waiter
LiveIdsDistinct(id, next) ==
  /\ \A t, u \in DOMAIN id : (t # u /\ id[t] # NoId) => id[t] # id[u]
  /\ \A t \in DOMAIN id : id[t] < next

\* one step of an adapter: an id handed to a future is the value of
\* next_waiter, which that step advances by one and no step ever lowers
IdsHandedInOrder(id, id2, next, next2) ==
  /\ next2 >= next
  /\ \A t \in DOMAIN id :
       (id2[t] # id[t] /\ id2[t] # NoId) => (id2[t] = next /\ next2 = next + 1)

\* C14: in each adapter the ids handed to futures are pairwise distinct and
\* strictly increasing in the order the calls pass through the registry's
\* exclusive section; no two live futures of one adapter carry the same id.
C14_WaiterIds ==
  /\ [](/\ LiveIdsDistinct(m_id, m_next_waiter)
        /\ LiveIdsDistinct(rw_id, rw_next_waiter)
        /\ LiveIdsDistinct(s_id, s_next_waiter))
  /\ [][/\ IdsHandedInOrder(m_id, m_id', m_next_waiter, m_next_waiter')
        /\ IdsHandedInOrder(rw_id, rw_id', rw_next_waiter, rw_next_waiter')
        /\ IdsHandedInOrder(s_id, s_id', s_next_waiter, s_next_waiter')]_vars

\* C14 witness: two down() futures are alive, with the ids 0 and 1
C14_Witness == \E t, u \in SemTasks : s_id[t] = 0 /\ s_id[u] = 1

\* C15: the id of a future that registered and was dropped before it resolved
\* is no longer in the registry, in every later state (so that a release wakes
\* a live waiter when one is registered).
C15_Deregistered ==
  /\ (DOMAIN m_waiter) \cap m_dropped = {}
  /\ (DOMAIN rw_waiter) \cap rw_dropped = {}
  /\ (DOMAIN s_waiter) \cap s_dropped = {}

\* C17: a lock() of AsyncMutex or AsyncRWLock that was issued while another
\* task held the exclusive guard resolves (in a poll) only when that guard is
\* dropped, and then finds the value the previous holder left; while a task
\* holds the exclusive guard nobody else changes the data.
C17_ExclusiveSerialised ==
  [][/\ \A t \in Tasks :
          (m_pc[t] = "poll" /\ m_pc'[t] = "guard")
            => /\ \A u \in Tasks \ {t} : ~MutexGuardHeld(u)
               /\ m_data = m_released
     /\ m_data' # m_data => Cardinality({t \in Tasks : MutexGuardHeld(t)}) = 1
     /\ \A t \in Tasks :
          (rw_pc[t] = "poll2" /\ rw_kind[t] = "write" /\ rw_pc'[t] = "guard")
            => /\ \A u \in Tasks \ {t} : ~RWGuardHeld(u, "write")
               /\ rw_data = rw_released
     /\ rw_data' # rw_data
          => Cardinality({t \in Tasks : RWGuardHeld(t, "write")}) = 1]_vars

\* C17 witness: the holder wrote 1 and dropped its guard; the pending future,
\* polled after the drop, is Ready and finds 1
C17_Witness ==
  m_obs.st = "done" /\ m_obs.ready = 1 /\ m_data = 1 /\ m_released = 1

\* ------------------------------------------------ AsyncRWLock claims, cont.
RWAnyGuard(kind) == \E u \in Tasks : RWGuardHeld(u, kind)

RWRequested(t) ==
  rw_pc[t] \in {"alloc_spin", "alloc", "poll", "poll2", "reg_spin", "reg", "pending"}

\* C16: a read() issued while a write guard is outstanding does not resolve
\* while that write guard is outstanding, and resolves after it was dropped.
\* The second half on states: while such a read() waits and its write guard
\* was dropped, a step of a running call or a re-poll of a woken task is
\* enabled; where none is, it waits forever.
C16_ReaderWaitsForWriter ==
  /\ [][\A t \in Tasks :
          (rw_kind[t] = "read" /\ rw_pc[t] = "poll2" /\ rw_pc'[t] = "guard")
            => rw_why[t] # "writer"]_vars
  /\ []((\E t \in Tasks :
            rw_kind[t] = "read" /\ RWRequested(t) /\ rw_why[t] = "freed")
          => \E u \in Tasks : ENABLED RW_Progress(u))

\* C18: a lock() issued while a read guard is outstanding stays pending while
\* any read guard is outstanding, and resolves after the last one was dropped.
\* The second half on states: while such a lock() waits and no guard is
\* outstanding, a step of a running call or a re-poll of a woken task is
\* enabled.
C18_WriterAfterReader ==
  /\ [][\A t \in Tasks :
          (rw_kind[t] = "write" /\ rw_why[t] = "reader" /\ rw_pc[t] = "poll2"
             /\ rw_pc'[t] = "guard")
            => ~RWAnyGuard("read")]_vars
  /\ []((/\ \E t \in Tasks :
              rw_kind[t] = "write" /\ RWRequested(t) /\ rw_why[t] = "reader"
          /\ ~RWAnyGuard("read") /\ ~RWAnyGuard("write"))
          => \E u \in Tasks : ENABLED RW_Progress(u))

C12_WakeOrder == m_ord.st # "bad"

\* C12 amended: the same, in every execution in which no id smaller than w3
\* that is not registered is inserted into the registry before the third release.
C12_WakeOrderUndisturbed == (m_ord.st = "bad") => m_ord.low

\* C12 witness: three successive releases have selected w1, w2, w3 in order
C12_Witness == m_ord.st = "ok" /\ ~m_ord.low

\* C13: one outstanding guard and k >= 1 pending futures: once the guard's drop
\* is complete, polling every pending future once, in any order and with no
\* drop in between, yields exactly one Ready (and so k - 1 Pending).
C13_OneReadyAfterRelease ==
  /\ m_obs.st = "done" => m_obs.ready = 1
  /\ m_obs.st = "polling" => m_obs.ready <= 1

\* C13 witness: two pending futures were polled after the drop, one is Ready
C13_Witness == m_obs.st = "done" /\ m_obs.k = 2 /\ m_obs.ready = 1

\* ------------------------------------------- sync::Mutex and DataLock claims
MutexGuards == {c \in Cores : mx_pc[c] = "guard"}
TryDataLocks == {c \in Cores : dl_pc[c] = "guard"}

\* C20: a try_lock of the Mutex (of the DataLock) returns a guard exactly when
\* no guard of that lock is outstanding and None otherwise; dropping the guard
\* leaves the lock available; at most one MutexGuard (TryDataLock) exists in
\* any state, whatever the interleaving of the cores.
C20_BlockingLockContract ==
  /\ [](Cardinality(MutexGuards) <= 1 /\ Cardinality(TryDataLocks) <= 1)
  /\ [][\A c \in Cores :
          /\ (mx_pc[c] # "guard" /\ mx_pc'[c] # mx_pc[c])
               => (mx_pc'[c] = "guard" <=> MutexGuards = {})
          /\ (mx_pc[c] = "guard" /\ mx_pc'[c] # "guard")
               => (~mx_locked' /\ \A d \in Cores : mx_pc'[d] # "guard")
          /\ (dl_pc[c] # "guard" /\ dl_pc'[c] # dl_pc[c])
               => (dl_pc'[c] = "guard" <=> TryDataLocks = {})
          /\ (dl_pc[c] = "guard" /\ dl_pc'[c] # "guard")
               => (~dl_locked' /\ \A d \in Cores : dl_pc'[d] # "guard")]_vars

\* C20 witness: on both locks one core holds the guard, the try_lock of a
\* second core has returned None and a third core spins in lock()
C20_Witness ==
  /\ \E c, d, e \in Cores :
        mx_pc[c] = "guard" /\ mx_pc[d] = "none" /\ mx_pc[e] = "spin"
  /\ \E c, d, e \in Cores :
        dl_pc[c] = "guard" /\ dl_pc[d] = "none" /\ dl_pc[e] = "spin"

\* ------------------------------------------------- sync::Semaphore claims
SemQuiescent == \A t \in SemTasks : s_pc[t] \in {"idle", "pending"}

\* C21: the check and the update of the counter in try_down are exclusive
\* with respect to the other try_down and up calls: whenever no call is
\* running, the counter is initial + ups - successful downs, and on a count of
\* 1 with no up() at most one try_down returns Ok.
C21_CounterExact ==
  /\ SemQuiescent => s_count = s_initial + s_ups - s_downs
  /\ (s_initial = 1 /\ s_ups = 0) => s_downs <= 1

\* C23: every up() increases the permit count by exactly one, whatever the
\* current value of the counter is, the largest u32 included.
C23_UpAddsOne ==
  [][s_ups' # s_ups => (U32Lt(s_count, s_count') /\ s_count' = U32Inc(s_count))]_vars

\* ---------------------------------------------------------- Spinlock claims
SpinHolders == {c \in Cores : sp_pc[c] = "held"}

\* C22: with release() called only by the core that last returned from
\* aquire(), at most one core is between the return of aquire() and its
\* release(), and an aquire() returns only in a step in which it has itself
\* changed the flag from false to true.
C22_SpinlockExclusion ==
  /\ [](Cardinality(SpinHolders) <= 1)
  /\ [][\A c \in Cores :
          (sp_pc[c] # "held" /\ sp_pc'[c] = "held") => (~sp_flag /\ sp_flag')]_vars

\* C22 witness: one core holds the Spinlock for the second time while the two
\* others spin in aquire()
C22_Witness ==
  \E c \in Cores :
    /\ sp_pc[c] = "held" /\ sp_count[c] = 2
    /\ \A d \in Cores \ {c} : sp_pc[d] = "spin"

\* ------------------------------------------------------- registry claims
\* positions inside a read-modify-write of the registry, between the return
\* of inner.lock() and the drop of that guard
InSection(pc) == pc \in {"alloc", "reg", "drop", "drop_inner", "up", "up_inner"}

\* positions at which a call is suspended, has returned, or attempts the data
\* lock: not called or returned (idle), about to try the data lock in a poll
\* (poll, poll_store, fast_store, fast2, poll2), Pending, Ready (guard)
AtRest(pc) ==
  pc \in {"idle", "poll", "poll2", "fast2", "poll_store", "fast_store", "pending",
          "guard"}

\* C24: the registry lock is held only by a task inside one read-modify-write
\* of the registry; a task whose poll returned Pending or Ready, which awaits
\* its future or which attempts the data lock does not hold it, so with every
\* task at such a point the registry lock is free.
C24_RegistryLockScope ==
  /\ m_inner_locked => Cardinality({t \in Tasks : InSection(m_pc[t])}) = 1
  /\ rw_inner_locked => Cardinality({t \in Tasks : InSection(rw_pc[t])}) = 1
  /\ s_inner_locked => Cardinality({t \in SemTasks : InSection(s_pc[t])}) = 1
  /\ (\A t \in Tasks : AtRest(m_pc[t])) => ~m_inner_locked
  /\ (\A t \in Tasks : AtRest(rw_pc[t])) => ~rw_inner_locked
  /\ (\A t \in SemTasks : AtRest(s_pc[t])) => ~s_inner_locked

\* C24 witness: one future has returned Pending, a second task is polling and
\* about to try the data lock, while the holder of the guard is inside the
\* registry section of its drop
C24_Witness ==
  \E t, u, v \in Tasks :
    /\ m_pc[t] = "pending" /\ m_pc[u] = "poll" /\ m_pc[v] = "drop"
    /\ m_inner_locked

\* ----------------------------------------------------- termination claims
\* every id allocation, every single poll and every guard drop of the
\* AsyncMutex terminates: a task is again and again outside these operations
\* (it has not called, its poll has returned Pending, or it holds the guard)
M_SyncTerminates ==
  \A t \in Tasks : []<>(m_pc[t] \in {"idle", "pending", "guard"})

\* every id allocation, every single poll and every up() of the
\* AsyncSemaphore terminates
S_SyncTerminates ==
  \A t \in SemTasks : []<>(s_pc[t] \in {"idle", "pending"})

StaleFirst(w, id) == DOMAIN w # {} /\ \A t \in DOMAIN id : id[t] # FirstKey(w)

\* taking the smallest entry out of w gives w2: every other entry is kept
OthersKept(w, w2) ==
  /\ DOMAIN w2 = (DOMAIN w) \ {FirstKey(w)}
  /\ \A j \in DOMAIN w2 : w2[j] = w[j]

\* the wake handle of a task that is not suspended is delivered: the set of
\* woken tasks shrinks and nobody moves
StaleDelivered(woken, woken2, pc, pc2) ==
  woken2 # woken /\ woken2 \subseteq woken /\ pc2 = pc

\* C26: a release that takes a stale wake handle from the registry and invokes
\* it removes that entry only and changes neither the other entries, nor the
\* next id, nor the blocking primitive; the delivery of the stale wake changes
\* none of these either; a release whose smallest id is live wakes that live
\* waiter, whatever stale wakes came before.
C26_StaleWakeHarmless ==
  [][/\ \A t \in Tasks :
          (m_pc[t] = "drop" /\ m_pc'[t] = "drop_inner" /\ DOMAIN m_waiter # {})
            => IF StaleFirst(m_waiter, m_id)
                 THEN /\ OthersKept(m_waiter, m_waiter')
                      /\ UNCHANGED <<m_next_waiter, m_locked>>
                 ELSE \E u \in Tasks :
                        m_id[u] = FirstKey(m_waiter) /\ u \in m_woken'
     /\ StaleDelivered(m_woken, m_woken', m_pc, m_pc')
          => UNCHANGED <<m_waiter, m_next_waiter, m_locked, m_inner_locked>>
     /\ \A t \in Tasks :
          (rw_pc[t] = "drop" /\ rw_pc'[t] = "drop_inner" /\ DOMAIN rw_waiter # {})
            => IF StaleFirst(rw_waiter, rw_id)
                 THEN /\ OthersKept(rw_waiter, rw_waiter')
                      /\ UNCHANGED <<rw_next_waiter, rw_write_lock, rw_read_locks>>
                 ELSE \E u \in Tasks :
                        rw_id[u] = FirstKey(rw_waiter) /\ u \in rw_woken'
     /\ StaleDelivered(rw_woken, rw_woken', rw_pc, rw_pc')
          => UNCHANGED <<rw_waiter, rw_next_waiter, rw_write_lock, rw_read_locks,
                         rw_inner_locked>>
     /\ \A t \in SemTasks :
          (s_pc[t] = "up" /\ s_pc'[t] = "up_inner" /\ DOMAIN s_waiter # {})
            => IF StaleFirst(s_waiter, s_id)
                 THEN /\ OthersKept(s_waiter, s_waiter')
                      /\ UNCHANGED <<s_next_waiter, s_count>>
                 ELSE \E u \in SemTasks :
                        s_id[u] = FirstKey(s_waiter) /\ u \in s_woken'
     /\ StaleDelivered(s_woken, s_woken', s_pc, s_pc')
          => UNCHANGED <<s_waiter, s_next_waiter, s_count, s_inner_locked>>]_vars

\* C26 witness: a guard drop has just taken the entry of a dropped future from
\* the registry and invoked it, and a live waiter with a larger id is still
\* registered
C26_Witness ==
  \E t, u \in Tasks : \E k \in m_dropped :
    /\ m_pc[t] = "drop_inner"
    /\ k \notin DOMAIN m_waiter
    /\ m_pc[u] = "pending" /\ m_id[u] > k /\ m_id[u] \in DOMAIN m_waiter

\* ------------------------------------------------------------- fast path
\* C27: the steps of a lock(), read() or down() whose first non-blocking
\* attempt succeeds leave the waiter map and next_waiter unchanged and invoke
\* no wake handle.
C27_FastPathFrame ==
  [][/\ \A t \in Tasks :
          (m_pc[t] = "idle" /\ m_pc'[t] = "guard")
            => UNCHANGED <<m_waiter, m_next_waiter, m_woken>>
     /\ \A t \in Tasks :
          (\/ rw_pc[t] = "idle" /\ rw_pc'[t] = "fast2"
           \/ rw_pc[t] = "fast2" /\ rw_pc'[t] = "guard")
            => UNCHANGED <<rw_waiter, rw_next_waiter, rw_woken>>
     /\ \A t \in SemTasks :
          (\/ s_pc[t] = "idle" /\ s_pc'[t] = "fast_store"
           \/ s_pc[t] = "fast_store" /\ s_pc'[t] = "idle")
            => UNCHANGED <<s_waiter, s_next_waiter, s_woken>>]_vars

\* C27 witness: t holds a guard it got on the fast path (the only id drawn so
\* far is that of u) while the wake handle of u is registered
C27_Witness ==
  \E t, u \in Tasks :
    /\ t # u /\ m_pc[t] = "guard"
    /\ m_next_waiter = 1 /\ m_id[u] = 0 /\ m_pc[u] = "pending"
    /\ DOMAIN m_waiter = {0} /\ m_woken = {}

\* ----------------------------------------------------------- poll protocol
\* the registry w becomes w2 by storing handle v under id k, overwriting
StoredUnder(w, w2, k, v) ==
  /\ DOMAIN w2 = (DOMAIN w) \cup {k}
  /\ w2[k] = v
  /\ \A j \in (DOMAIN w) \ {k} : w2[j] = w[j]

\* C28: a poll that succeeds returns Ready and leaves the registry as it is;
\* a poll that fails stores the wake handle of the polling task under the
\* future's own id, which it keeps, overwriting the entry of that id, and
\* returns Pending; nothing else adds an entry.  So a registered id has one
\* entry, and the entry of a pending future is the handle of its last poll.
C28_PollProtocol ==
  /\ [][/\ \A t \in Tasks :
             /\ (m_pc[t] = "poll" /\ m_pc'[t] = "guard")
                  => UNCHANGED <<m_waiter, m_next_waiter>>
             /\ (m_pc[t] # "pending" /\ m_pc'[t] = "pending")
                  => /\ m_pc[t] = "reg" /\ m_id'[t] = m_id[t]
                     /\ StoredUnder(m_waiter, m_waiter', m_id[t], t)
        /\ (DOMAIN m_waiter') \ (DOMAIN m_waiter) # {}
             => \E t \in Tasks : m_pc[t] = "reg" /\ m_pc'[t] = "pending"
        /\ \A t \in Tasks :
             /\ (rw_pc[t] = "poll2" /\ rw_pc'[t] = "guard")
                  => UNCHANGED <<rw_waiter, rw_next_waiter>>
             /\ (rw_pc[t] # "pending" /\ rw_pc'[t] = "pending")
                  => /\ rw_pc[t] = "reg" /\ rw_id'[t] = rw_id[t]
                     /\ StoredUnder(rw_waiter, rw_waiter', rw_id[t], t)
        /\ (DOMAIN rw_waiter') \ (DOMAIN rw_waiter) # {}
             => \E t \in Tasks : rw_pc[t] = "reg" /\ rw_pc'[t] = "pending"
        /\ \A t \in SemTasks :
             /\ (s_pc[t] = "poll_store" /\ s_pc'[t] = "idle")
                  => UNCHANGED <<s_waiter, s_next_waiter>>
             /\ (s_pc[t] # "pending" /\ s_pc'[t] = "pending")
                  => /\ s_pc[t] = "reg" /\ s_id'[t] = s_id[t]
                     /\ StoredUnder(s_waiter, s_waiter', s_id[t], t)
        /\ (DOMAIN s_waiter') \ (DOMAIN s_waiter) # {}
             => \E t \in SemTasks : s_pc[t] = "reg" /\ s_pc'[t] = "pending"]_vars
  /\ [](/\ \A t \in Tasks :
             (m_pc[t] = "pending" /\ m_id[t] \in DOMAIN m_waiter)
               => m_waiter[m_id[t]] = t
        /\ \A t \in Tasks :
             (rw_pc[t] = "pending" /\ rw_id[t] \in DOMAIN rw_waiter)
               => rw_waiter[rw_id[t]] = t
        /\ \A t \in SemTasks :
             (s_pc[t] = "pending" /\ s_id[t] \in DOMAIN s_waiter)
               => s_waiter[s_id[t]] = t)

\* C28 witness: a future polled again without a wake has failed its retry and
\* is about to overwrite the entry its earlier poll stored
C28_Witness ==
  \E t \in Tasks : m_pc[t] = "reg" /\ m_id[t] \in DOMAIN m_waiter

\* ------------------------------------------------ AsyncRWLock id sequence
\* C29: read() and lock() draw their waiter ids from the one counter
\* next_waiter, so a reader and a writer whose futures are alive never have
\* the same id; the drop of a write guard and the drop of a read guard both
\* wake the smallest registered id, be that waiter a reader or a writer.
C29_SharedIdSequence ==
  /\ [](\A t, u \in Tasks :
          (rw_kind[t] = "read" /\ rw_kind[u] = "write" /\ rw_id[t] # NoId)
            => rw_id[t] # rw_id[u])
  /\ [][\A t \in Tasks :
          /\ (rw_pc[t] = "alloc" /\ rw_pc'[t] = "poll")
               => /\ rw_id'[t] = rw_next_waiter
                  /\ rw_next_waiter' = rw_next_waiter + 1
          /\ (rw_pc[t] = "drop" /\ rw_pc'[t] = "drop_inner")
               => WakesSmallest(rw_waiter, rw_woken, rw_waiter', rw_woken')]_vars

\* C29 witness: the drop of a write guard has just woken the reader with id 0
\* while the writer with id 1 stays registered
C29_Witness ==
  \E t, u, v \in Tasks :
    /\ rw_pc[t] = "drop_inner" /\ rw_kind[t] = "write"
    /\ rw_kind[u] = "read" /\ rw_id[u] = 0 /\ u \in rw_woken
    /\ rw_kind[v] = "write" /\ rw_id[v] = 1 /\ rw_pc[v] = "pending"
    /\ DOMAIN rw_waiter = {1}

\* -------------------------------------------------------- registry removal
\* the task at position pc[t] is alone inside the registry
AloneInSection(pc, t) == \A u \in (DOMAIN pc) \ {t} : ~InSection(pc[u])

\* the remove of the smallest key of w succeeded and gave w2
RemovedFirst(w, w2) ==
  /\ FirstKey(w) \in DOMAIN w
  /\ FirstKey(w) \notin DOMAIN w2
  /\ Cardinality(DOMAIN w2) = Cardinality(DOMAIN w) - 1

\* C30: a guard drop or an up() that is about to read keys().next() holds the
\* registry lock and no other task is inside the registry, so the id it reads
\* is still present when it removes it: the remove never fails.
C30_RemoveFindsKey ==
  /\ [](/\ \A t \in Tasks :
             m_pc[t] = "drop" => (m_inner_locked /\ AloneInSection(m_pc, t))
        /\ \A t \in Tasks :
             rw_pc[t] = "drop" => (rw_inner_locked /\ AloneInSection(rw_pc, t))
        /\ \A t \in SemTasks :
             s_pc[t] = "up" => (s_inner_locked /\ AloneInSection(s_pc, t)))
  /\ [][/\ \A t \in Tasks :
             (m_pc[t] = "drop" /\ m_pc'[t] = "drop_inner" /\ DOMAIN m_waiter # {})
               => RemovedFirst(m_waiter, m_waiter')
        /\ \A t \in Tasks :
             (rw_pc[t] = "drop" /\ rw_pc'[t] = "drop_inner" /\ DOMAIN rw_waiter # {})
               => RemovedFirst(rw_waiter, rw_waiter')
        /\ \A t \in SemTasks :
             (s_pc[t] = "up" /\ s_pc'[t] = "up_inner" /\ DOMAIN s_waiter # {})
               => RemovedFirst(s_waiter, s_waiter')]_vars

\* C30 witness: a guard drop has removed and woken a waiter while the poll of
\* another task waits for the registry lock to insert its handle
C30_Witness ==
  \E t, u \in Tasks :
    /\ m_pc[t] = "drop_inner" /\ m_woken # {}
    /\ m_pc[u] = "reg_spin"

\* ------------------------------------------------- wake is a re-poll request
\* C31: a wake is a request to poll again and hands nothing over: the poll of
\* a waiter w that finds the primitive taken (by a task that came after the
\* release) ends in the registration branch, w keeps its id and is registered
\* under it again, and a release that finds the id of the pending w as the
\* smallest registered one removes it and wakes w again.
C31_WakeIsRepollRequest ==
  [][/\ \A w \in Tasks :
          /\ (m_pc[w] = "poll" /\ m_locked /\ m_pc'[w] # "poll")
               => m_pc'[w] = "reg_spin" /\ m_id'[w] = m_id[w]
          /\ (m_pc[w] = "reg_spin" /\ m_pc'[w] # "reg_spin")
               => m_pc'[w] = "reg" /\ m_id'[w] = m_id[w]
          /\ (m_pc[w] = "reg" /\ m_pc'[w] # "reg")
               => /\ m_pc'[w] = "pending" /\ m_id'[w] = m_id[w]
                  /\ StoredUnder(m_waiter, m_waiter', m_id[w], w)
          /\ (/\ m_pc[w] = "pending" /\ DOMAIN m_waiter # {}
              /\ FirstKey(m_waiter) = m_id[w]
              /\ \E t \in Tasks : m_pc[t] = "drop" /\ m_pc'[t] = "drop_inner")
               => w \in m_woken' /\ m_id[w] \notin DOMAIN m_waiter'
     /\ \A w \in Tasks :
          /\ (rw_pc[w] = "poll" /\ rw_kind[w] = "read" /\ rw_write_lock
                  /\ rw_pc'[w] # "poll")
               => rw_pc'[w] = "reg_spin" /\ rw_id'[w] = rw_id[w]
          /\ (rw_pc[w] = "reg_spin" /\ rw_pc'[w] # "reg_spin")
               => rw_pc'[w] = "reg" /\ rw_id'[w] = rw_id[w]
          /\ (rw_pc[w] = "reg" /\ rw_pc'[w] # "reg")
               => /\ rw_pc'[w] = "pending" /\ rw_id'[w] = rw_id[w]
                  /\ StoredUnder(rw_waiter, rw_waiter', rw_id[w], w)
          /\ (/\ rw_pc[w] = "pending" /\ DOMAIN rw_waiter # {}
              /\ FirstKey(rw_waiter) = rw_id[w]
              /\ \E t \in Tasks : rw_pc[t] = "drop" /\ rw_pc'[t] = "drop_inner")
               => w \in rw_woken' /\ rw_id[w] \notin DOMAIN rw_waiter']_vars

\* C31 witness: w, the only task that ever drew an id, has been woken by a
\* release and is not yet polled, while t, which never suspended, already
\* holds the guard it took after that release
C31_Witness ==
  \E w, t \in Tasks :
    /\ w # t
    /\ m_pc[w] = "pending" /\ w \in m_woken /\ m_id[w] = 0
    /\ m_next_waiter = 1
    /\ m_pc[t] = "guard" /\ m_id[t] = NoId


\* --------------------------------------------------------- writer starvation
\* the lock() request of w is unresolved, the readers a and b are at pa and
\* pb, n read guards are counted, no write guard exists; the id of w is the
\* only registered one (reg) or none is, w's wake handle was invoked (wk) or
\* not, the registry lock is held (il) or free
StarveAt(w, a, b, pw, pa, pb, n, reg, wk, il) ==
  /\ rw_kind[w] = "write" /\ rw_pc[w] = pw /\ rw_id[w] # NoId
  /\ rw_pc[a] = pa /\ (pa # "idle" => rw_kind[a] = "read")
  /\ rw_pc[b] = pb /\ (pb # "idle" => rw_kind[b] = "read")
  /\ rw_read_locks = n /\ ~rw_write_lock
  /\ rw_next_waiter < MaxId
  /\ DOMAIN rw_waiter = (IF reg THEN {rw_id[w]} ELSE {})
  /\ rw_woken = (IF wk THEN {w} ELSE {})
  /\ rw_inner_locked = il

\* C32: writer starvation is possible.  With a lock() request of w pending and
\* a read guard of a outstanding, each step of the following round can be
\* taken and leads to the next: reader b acquires on the fast path (two read
\* guards), a drops its guard and wakes w (one read guard left), w is polled,
\* finds read_locks above zero, registers again and is Pending; the round ends
\* where it began, with a and b exchanged.  Repeated for ever, every task
\* keeps taking steps, every read guard is dropped, read_locks never reaches
\* zero and the lock() of w never resolves.
C32_WriterStarvation ==
  \A w, a, b \in Tasks :
    (w # a /\ w # b /\ a # b) =>
      /\ StarveAt(w, a, b, "pending", "guard", "idle", 1, TRUE, FALSE, FALSE)
           => ENABLED (RW_ReadCheck(b)
                 /\ StarveAt(w, a, b, "pending", "guard", "fast2", 1, TRUE, FALSE, FALSE)')
      /\ StarveAt(w, a, b, "pending", "guard", "fast2", 1, TRUE, FALSE, FALSE)
           => ENABLED (RW_ReadAdd(b)
                 /\ StarveAt(w, a, b, "pending", "guard", "guard", 2, TRUE, FALSE, FALSE)')
      /\ StarveAt(w, a, b, "pending", "guard", "guard", 2, TRUE, FALSE, FALSE)
           => ENABLED (RW_DropLock(a)
                 /\ StarveAt(w, a, b, "pending", "drop", "guard", 2, TRUE, FALSE, TRUE)')
      /\ StarveAt(w, a, b, "pending", "drop", "guard", 2, TRUE, FALSE, TRUE)
           => ENABLED (RW_DropWake(a)
                 /\ StarveAt(w, a, b, "pending", "drop_inner", "guard", 2, FALSE, TRUE, TRUE)')
      /\ StarveAt(w, a, b, "pending", "drop_inner", "guard", 2, FALSE, TRUE, TRUE)
           => ENABLED (RW_DropUnlock(a)
                 /\ StarveAt(w, a, b, "pending", "drop_guard", "guard", 2, FALSE, TRUE, FALSE)')
      /\ StarveAt(w, a, b, "pending", "drop_guard", "guard", 2, FALSE, TRUE, FALSE)
           => ENABLED (RW_DropGuard(a)
                 /\ StarveAt(w, a, b, "pending", "idle", "guard", 1, FALSE, TRUE, FALSE)')
      /\ StarveAt(w, a, b, "pending", "idle", "guard", 1, FALSE, TRUE, FALSE)
           => ENABLED (RW_Repoll(w)
                 /\ StarveAt(w, a, b, "poll", "idle", "guard", 1, FALSE, FALSE, FALSE)')
      /\ StarveAt(w, a, b, "poll", "idle", "guard", 1, FALSE, FALSE, FALSE)
           => ENABLED (RW_WriteCheck(w)
                 /\ StarveAt(w, a, b, "reg_spin", "idle", "guard", 1, FALSE, FALSE, FALSE)')
      /\ StarveAt(w, a, b, "reg_spin", "idle", "guard", 1, FALSE, FALSE, FALSE)
           => ENABLED (RW_RegLock(w)
                 /\ StarveAt(w, a, b, "reg", "idle", "guard", 1, FALSE, FALSE, TRUE)')
      /\ StarveAt(w, a, b, "reg", "idle", "guard", 1, FALSE, FALSE, TRUE)
           => ENABLED (RW_Register(w)
                 /\ StarveAt(w, b, a, "pending", "guard", "idle", 1, TRUE, FALSE, FALSE)')

\* C32 witness: the round is at its end: w has just been polled with the
\* second reader's guard outstanding and is about to register again
C32_Witness ==
  \E w, a, b \in Tasks :
    /\ w # a /\ w # b /\ a # b
    /\ StarveAt(w, a, b, "reg", "idle", "guard", 1, FALSE, FALSE, TRUE)


\* --------------------------------------- AsyncRWLock without readers as mutex
\* the registries, the id counters, the ids of the futures, the registry
\* locks and the data locks of the two adapters are equal
SameAsMutex ==
  /\ rw_waiter = m_waiter
  /\ rw_next_waiter = m_next_waiter
  /\ rw_id = m_id
  /\ rw_inner_locked = m_inner_locked
  /\ rw_write_lock = m_locked
  /\ rw_read_locks = 0

\* C33: an AsyncRWLock on which read() is never called and an AsyncMutex,
\* driven by the same lock(), poll and guard-drop steps: each step of the
\* RWLock ends where the step of the mutex ended (Ready: "guard", Pending:
\* "pending") with the same tasks woken, the registries and ids are equal
\* after every step, and a step is possible on one exactly when it is on the
\* other.
C33_WriterOnlyIsMutex ==
  /\ [](InStep => SameAsMutex)
  /\ [](InStep => \A t \in Tasks : (ENABLED M_Task(t)) <=> (ENABLED (RW_WriterTask(t) \/ RW_StaleWake(t))))
  /\ [](~InStep => \E t \in Tasks : ENABLED RW_Follow(t))
  /\ [][\A t \in Tasks :
          (rw_pc'[t] # rw_pc[t] /\ rw_pc'[t] \notin {"fast2", "poll2"}) => InStep']_vars
  /\ [][rw_woken' # rw_woken => InStep']_vars

\* C33 witness: both adapters, in step, with one guard outstanding, one future
\* pending and registered, and two ids handed out
C33_Witness ==
  \E t, u \in Tasks :
    /\ InStep
    /\ rw_pc[t] = "guard" /\ rw_pc[u] = "pending"
    /\ rw_id[u] \in DOMAIN rw_waiter
    /\ rw_next_waiter = 2


\* ------------------------------------------------- entries after resolution
\* every registered id is the id of a future that has not resolved (a future
\* gives up its id when its poll returns Ready)
OnlyUnresolved(w, id) == \A k \in DOMAIN w : \E t \in DOMAIN id : id[t] = k

\* C34: in every reachable state the registry of an adapter contains no id of
\* a future that has already returned Ready, also after a poll without a wake
\* (a spurious poll) that succeeded.
C34_NoEntryAfterReady ==
  /\ OnlyUnresolved(m_waiter, m_id)
  /\ OnlyUnresolved(rw_waiter, rw_id)
  /\ OnlyUnresolved(s_waiter, s_id)


\* ---------------------------------------------------- RWLock reader count
ReadGuards == {t \in Tasks : RWGuardHeld(t, "read")}

\* C35: read_locks equals the number of outstanding ReadLockGuards in every
\* reachable state; it changes only by the +1 of a successful try_read and the
\* -1 of a ReadLockGuard drop, and it never wraps below zero.
C35_ReaderCount ==
  /\ [](rw_read_locks = Cardinality(ReadGuards))
  /\ [](rw_read_locks >= 0 /\ rw_read_locks <= NumTasks)
  /\ [][rw_read_locks' # rw_read_locks =>
          \E t \in Tasks :
            \/ /\ rw_pc[t] \in {"fast2", "poll2"} /\ rw_kind[t] = "read"
               /\ rw_pc'[t] = "guard"
               /\ rw_read_locks' = rw_read_locks + 1
            \/ /\ rw_pc[t] = "drop_guard" /\ rw_kind[t] = "read"
               /\ rw_pc'[t] = "idle"
               /\ rw_read_locks' = rw_read_locks - 1]_vars

\* C35 witness: two read guards are outstanding and counted, the third task
\* holds none, and some request has gone through the slow path
C35_Witness ==
  /\ rw_read_locks = 2
  /\ Cardinality(ReadGuards) = 2
  /\ rw_next_waiter > 0
  /\ \E t \in Tasks : rw_pc[t] = "idle"


\* ----------------------------------------------------- failed try_down
\* C36: a try_down that returns Err leaves the counter with the value it had
\* right before its last operation (the value it would have without the
\* call), also when an up() ran between its load and its store; no completed
\* increment is undone.
C36_FailedTryDownKeepsCount ==
  [][\A t \in SemTasks :
       (/\ s_pc[t] \in {"fast_store", "poll_store"}
        /\ ~TryDownOk(s_value[t])
        /\ s_pc'[t] # s_pc[t])
         => s_count' = s_count]_vars


\* ------------------------------------------------ failed try-acquire frame
\* C37: a Mutex::try_lock that returns None leaves the lock taken, with the
\* guard of its holder; an RWLock::try_read that returns None leaves
\* read_locks and write_lock unchanged; an RWLock::try_write that returns
\* None, at the load of read_locks or at the swap, leaves read_locks
\* unchanged and write_lock at the value it had.
C37_FailedTryFrame ==
  [][/\ \A t \in Tasks :
          (\/ m_pc[t] = "idle" /\ m_pc'[t] = "alloc_spin"
           \/ m_pc[t] = "poll" /\ m_pc'[t] = "reg_spin")
            => /\ m_locked /\ m_locked'
               /\ \A u \in Tasks : MutexGuardHeld(u)' <=> MutexGuardHeld(u)
     /\ \A t \in Tasks :
          (\/ rw_pc[t] \in {"idle", "fast2"} /\ rw_pc'[t] = "alloc_spin"
           \/ rw_pc[t] \in {"poll", "poll2"} /\ rw_pc'[t] = "reg_spin")
            => /\ UNCHANGED <<rw_read_locks, rw_write_lock>>
               /\ \A u \in Tasks, k \in {"read", "write"} :
                    RWGuardHeld(u, k)' <=> RWGuardHeld(u, k)]_vars

\* C37 witness: a try_write of t has failed while u holds the write guard;
\* write_lock is still set
C37_Witness ==
  \E t, u \in Tasks :
    /\ rw_pc[t] = "alloc_spin" /\ rw_kind[t] = "write"
    /\ RWGuardHeld(u, "write")
    /\ rw_write_lock /\ rw_read_locks = 0


\* ------------------------------------------------------- DataRWLock claims
DataWriteLocks == {c \in Cores : drw_pc[c] = "write"}
DataReadLocks == {c \in Cores : drw_pc[c] = "read"}

\* C38: while a DataWriteLock is outstanding, no second DataWriteLock and no
\* DataReadLock of the same DataRWLock is outstanding.
C38_WriteLockExclusive ==
  DataWriteLocks # {} => (Cardinality(DataWriteLocks) = 1 /\ DataReadLocks = {})


\* ---------------------------------------------- Semaphore with a flag claims
\* the cores whose call is between its successful compare_and_swap and its
\* store(false)
FlagHolders ==
  {c \in Cores : sem_pc[c] \in {"up_get", "up_set", "up_release",
                                "down_get", "down_set", "down_release"}}

\* C39: up and try_down read and write the count only while holding the flag
\* and clear the flag before they return: the flag is set exactly while one
\* call is in its section, at most one is, the count changes only in a step
\* of that call; whenever no call is in its section the count is initial +
\* (up calls returned) - (try_down calls returned Ok), it is never below zero,
\* and the flag is false whenever no call is in progress.
C39_FlagGuardsCount ==
  /\ [](Cardinality(FlagHolders) <= 1)
  /\ [](sem_flag <=> FlagHolders # {})
  /\ [](FlagHolders = {} => sem_count = sem_initial + sem_ups - sem_downs)
  /\ [](sem_count >= 0)
  /\ []((\A c \in Cores : sem_pc[c] = "idle") => ~sem_flag)
  /\ [][sem_count' # sem_count =>
          \E c \in FlagHolders : sem_pc'[c] # sem_pc[c] /\ sem_flag]_vars
  /\ [][\A c \in Cores :
          (sem_pc[c] # "idle" /\ sem_pc'[c] = "idle") => ~sem_flag']_vars

\* C39 witness: no call is in its section after two up() calls and one
\* try_down that returned Ok, while another core waits for the flag it just
\* found taken
C39_Witness ==
  /\ FlagHolders = {}
  /\ sem_ups = 2 /\ sem_downs >= 1
  /\ \E c \in Cores : sem_pc[c] = "down_spin"


====
